---- MODULE Spec2Model ----
(***************************************************************************)
(* Red JSON: the value-skipping engine (libjson/skip.c), json_span         *)
(* (libjson/null.c), the object and array iterators (lib/stras.c) and the  *)
(* selection engine (libjson/select.c), modelled over byte memories.       *)
(*                                                                         *)
(* A JSON text is a sequence of bytes (0..255) that holds no NUL; in       *)
(* memory it is followed by its terminating NUL and then by bytes that do  *)
(* not belong to it (slack).  A pointer is an index into that memory, the  *)
(* first byte of the text being 1; the NULL pointer is 0.                  *)
(***************************************************************************)
EXTENDS Integers, Sequences, FiniteSets, TLC

(***************************************************************************)
(* Bounds of the model.                                                    *)
(***************************************************************************)
\* longest text enumerated over the whole alphabet
MaxLen == 3
\* deepest text built by nested_array / nested_object
MaxDepth == 6
\* 8 * sizeof (word_t), the bits of one word of the nesting stack (64 or 32
\* in a build), scaled down
WordBits == 2
\* MAX_NEST of skip.c (32768 in the source), scaled down with WordBits
MAX_NEST == 4
\* calls made on one iterator variable
MaxCalls == 4

(***************************************************************************)
(* Characters are their ASCII codes.                                       *)
(***************************************************************************)
Ch == "[" :> 91 @@ "]" :> 93 @@ "{" :> 123 @@ "}" :> 125 @@ ":" :> 58
      @@ "," :> 44 @@ "\"" :> 34 @@ "'" :> 39 @@ "\\" :> 92 @@ " " :> 32
      @@ "\t" :> 9 @@ "\n" :> 10 @@ "\r" :> 13 @@ "a" :> 97 @@ "b" :> 98
      @@ "0" :> 48 @@ "1" :> 49 @@ "4" :> 52 @@ "6" :> 54 @@ "9" :> 57
      @@ "2" :> 50 @@ "3" :> 51 @@ "5" :> 53 @@ "7" :> 55 @@ "8" :> 56
      @@ "-" :> 45 @@ "+" :> 43 @@ "e" :> 101 @@ "i" :> 105 @@ "l" :> 108
      @@ "E" :> 69 @@ "N" :> 78
      @@ "%" :> 37 @@ "." :> 46 @@ "d" :> 100 @@ "u" :> 117 @@ "s" :> 115
      @@ "/" :> 47 @@ "f" :> 102 @@ "n" :> 110 @@ "r" :> 114 @@ "t" :> 116
      @@ "^A" :> 1 @@ "NUL" :> 0

NULL == 0

\* the memory that holds a text: the text, its NUL, and what follows it
Memory(t, sl) == [bytes |-> t \o <<Ch["NUL"]>> \o sl, nul |-> Len(t) + 1]

\* *p; memory beyond the modelled slack reads as NUL
rd(M, p) == IF p >= 1 /\ p <= Len(M.bytes) THEN M.bytes[p] ELSE Ch["NUL"]

Max(a, b) == IF a >= b THEN a ELSE b

(***************************************************************************)
(* A cursor is a pointer together with the highest address dereferenced    *)
(* through it so far (hi; 0 when nothing was read).                        *)
(***************************************************************************)
Cursor(p, h) == [json |-> p, hi |-> h]

WHITESPACE == {Ch[" "], Ch["\t"], Ch["\n"], Ch["\r"]}

RECURSIVE WhiteEnd(_, _)
WhiteEnd(M, p) ==
    IF rd(M, p) # Ch["NUL"] /\ rd(M, p) \in WHITESPACE
    THEN WhiteEnd(M, p + 1)
    ELSE p

skip_white(M, c) ==
    IF c.json = NULL
    THEN c
    ELSE LET q == WhiteEnd(M, c.json) IN Cursor(q, Max(c.hi, q))

can_skip_delim(M, c, ch) ==
    IF c.json # NULL /\ rd(M, c.json) = ch
    THEN [c |-> skip_white(M, Cursor(c.json + 1, Max(c.hi, c.json))), r |-> 1]
    ELSE [c |-> Cursor(c.json, IF c.json = NULL THEN c.hi ELSE Max(c.hi, c.json)),
          r |-> 0]

is_delimiter(ch) ==
    ch <= Ch[" "] \/ ch \in {Ch["["], Ch["]"], Ch["{"], Ch["}"], Ch[":"],
                             Ch[","], Ch["\""], Ch["'"]}

is_word_start(ch) == ~is_delimiter(ch)

is_word_char(ch) == ch = Ch["'"] \/ is_word_start(ch)

\* the while loop of skip_word_or_string over a quoted string: p is the
\* byte about to be read by ch = *json++
RECURSIVE QuotedEnd(_, _, _, _)
QuotedEnd(M, p, quote, h) ==
    LET ch == rd(M, p)
        h1 == Max(h, p)
    IN  IF ch = Ch["NUL"] THEN Cursor(p + 1, h1)
        ELSE IF ch = quote THEN Cursor(p + 1, h1)
        ELSE IF ch = Ch["\\"] THEN QuotedEnd(M, p + 2, quote, h1)
        ELSE QuotedEnd(M, p + 1, quote, h1)

\* the do-while loop of skip_word_or_string over a bare word
RECURSIVE WordEnd(_, _)
WordEnd(M, p) == IF is_word_char(rd(M, p + 1)) THEN WordEnd(M, p + 1) ELSE p + 1

skip_word_or_stringNoWhite(M, c) ==
    IF c.json = NULL THEN [c |-> c, r |-> 0]
    ELSE LET ch == rd(M, c.json)
             h0 == Max(c.hi, c.json)
         IN  IF ch = Ch["\""] \/ ch = Ch["'"]
             THEN [c |-> QuotedEnd(M, c.json + 1, ch, h0), r |-> 1]
             ELSE IF is_word_start(ch)
             THEN LET q == WordEnd(M, c.json)
                  IN  [c |-> Cursor(q, Max(h0, q)), r |-> 1]
             ELSE [c |-> Cursor(c.json, h0), r |-> 0]

skip_word_or_string(M, c) ==
    IF c.json = NULL THEN [c |-> c, r |-> 0]
    ELSE LET ch == rd(M, c.json)
             h0 == Max(c.hi, c.json)
         IN  IF ch = Ch["\""] \/ ch = Ch["'"]
             THEN [c |-> skip_white(M, QuotedEnd(M, c.json + 1, ch, h0)), r |-> 1]
             ELSE IF is_word_start(ch)
             THEN LET q == WordEnd(M, c.json)
                  IN  [c |-> skip_white(M, Cursor(q, Max(h0, q))), r |-> 1]
             ELSE [c |-> Cursor(c.json, h0), r |-> 0]

(***************************************************************************)
(* skip_value.  Its locals are the cursor (json, hi), the nesting stack    *)
(* nest[] with its top depth = (offset, bit), and three observers: level,  *)
(* the number of brackets entered and not yet left; bad, set when nest[]   *)
(* is indexed outside 0 .. max_offset - 1; passes, the number of passes    *)
(* made through the body of its loop.                                      *)
(***************************************************************************)
RECURSIVE Pow2(_)
Pow2(n) == IF n = 0 THEN 1 ELSE 2 * Pow2(n - 1)

\* (word_t)1 << ((8 * sizeof (word_t)) - 1)
max_bit == Pow2(WordBits - 1)

\* sizeof nest / sizeof nest[0], with word_t nest[MAX_NEST / (8 * sizeof (word_t))]
max_offset == MAX_NEST \div WordBits

\* every content the uninitialised array nest[] can have on entry
NestContents == [0 .. max_offset - 1 -> 0 .. Pow2(WordBits) - 1]

NestIndexOk(s) == s.offset \in DOMAIN s.nest

NestWord(s) == IF NestIndexOk(s) THEN s.nest[s.offset] ELSE 0

\* nest[depth.offset] & depth.bit
NestBit(s) == (NestWord(s) \div s.bit) % 2 = 1

\* nest[depth.offset] |= depth.bit, or nest[depth.offset] &= ~depth.bit
NestSet(s, on) ==
    IF ~NestIndexOk(s) THEN [s EXCEPT !.bad = TRUE]
    ELSE IF on
    THEN [s EXCEPT !.nest[s.offset] = IF NestBit(s) THEN @ ELSE @ + s.bit]
    ELSE [s EXCEPT !.nest[s.offset] = IF NestBit(s) THEN @ - s.bit ELSE @]

SkipLocals(p, g) ==
    [json |-> p, hi |-> 0, bit |-> 0, offset |-> 0, nest |-> g,
     level |-> 0, bad |-> FALSE, passes |-> 0]

WithCursor(s, c) == [s EXCEPT !.json = c.json, !.hi = c.hi]

CursorOf(s) == Cursor(s.json, s.hi)

\* the inner while loop of skip_value, "Handle popping the nest stack";
\* the result tells whether skip_value goes on ("go") or jumps to done
RECURSIVE PopNest(_, _)

\* after "json++; skip_white(&json);": completed, or one level up
PopLevel(M, s1) ==
    IF s1.bit = 1 /\ s1.offset = 0 THEN [s |-> s1, ctl |-> "done"]
    ELSE IF s1.bit = 1
    THEN PopNest(M, [s1 EXCEPT !.bit = max_bit, !.offset = @ - 1])
    ELSE PopNest(M, [s1 EXCEPT !.bit = @ \div 2])

\* the closing bracket ch is compared with nest[depth.offset] & depth.bit
PopClose(M, sb, ch) ==
    IF (NestBit(sb) /\ ch = Ch["}"]) \/ (~NestBit(sb) /\ ch = Ch["]"])
    THEN [s |-> sb, ctl |-> "done"]
    ELSE PopLevel(M, [WithCursor(sb, skip_white(M, Cursor(sb.json + 1, sb.hi)))
                        EXCEPT !.level = @ - 1])

\* the test of the inner loop, ch being *json
PopTest(M, s, ch) ==
    IF ~(ch = Ch["]"] \/ ch = Ch["}"]) THEN [s |-> s, ctl |-> "go"]
    ELSE IF s.bit = 0 THEN [s |-> s, ctl |-> "done"]
    ELSE PopClose(M, [s EXCEPT !.bad = @ \/ ~NestIndexOk(s)], ch)

PopNest(M, s0) == PopTest(M, [s0 EXCEPT !.hi = Max(@, s0.json)], rd(M, s0.json))

\* "enter new nesting level": the depth after the push, or ENOMEM
PushOverflowsAlt(s) == s.offset + 1 > max_offset

PushOverflows(s) == s.offset + 1 >= max_offset

PushNest(M, s, open) ==
    IF s.bit = 0
    THEN [s |-> [s EXCEPT !.bit = 1, !.offset = 0], ctl |-> "go"]
    ELSE IF s.bit = max_bit
    THEN IF PushOverflows(s)
         THEN [s |-> [s EXCEPT !.bit = 1, !.offset = @ + 1], ctl |-> "enomem"]
         ELSE [s |-> [s EXCEPT !.bit = 1, !.offset = @ + 1], ctl |-> "go"]
    ELSE [s |-> [s EXCEPT !.bit = @ * 2], ctl |-> "go"]

\* "Skip commas if they are there", and round the loop again
SkipComma(M, s) ==
    [s |-> WithCursor(s, can_skip_delim(M, CursorOf(s), Ch[","]).c), ctl |-> "loop"]

\* after the push: the kind of bracket is recorded and the bracket skipped
SkipEntered(M, q, open) ==
    IF q.ctl = "enomem" THEN q
    ELSE SkipComma(M, [WithCursor(NestSet(q.s, open = Ch["["]),
                                  skip_white(M, Cursor(q.s.json + 1, q.s.hi)))
                         EXCEPT !.level = @ + 1])

\* after skip_word_or_string: "if (!depth.bit) goto done"
SkipScalar(M, s4) ==
    IF s4.bit = 0 THEN [s |-> s4, ctl |-> "done"] ELSE SkipComma(M, s4)

\* "if (*json == '[' || *json == '{') ... else", open being *json
SkipOpen(M, s3, open) ==
    IF open = Ch["["] \/ open = Ch["{"]
    THEN SkipEntered(M, PushNest(M, s3, open), open)
    ELSE SkipScalar(M, WithCursor(s3, skip_word_or_string(M, CursorOf(s3)).c))

SkipMember(M, s2) == SkipOpen(M, [s2 EXCEPT !.hi = Max(@, s2.json)], rd(M, s2.json))

\* "We're in an object; expect a key and colon"
SkipKey(M, s1) ==
    IF s1.bit # 0 /\ ~NestBit(s1)
    THEN [WithCursor(s1, can_skip_delim(M, skip_word_or_string(M, CursorOf(s1)).c,
                                        Ch[":"]).c)
            EXCEPT !.bad = @ \/ ~NestIndexOk(s1)]
    ELSE [s1 EXCEPT !.bad = @ \/ (s1.bit # 0 /\ ~NestIndexOk(s1))]

SkipPopped(M, p) == IF p.ctl = "done" THEN p ELSE SkipMember(M, SkipKey(M, p.s))

\* one pass through the body of "while ( *json )" in skip_value
SkipIter(M, s0) ==
    IF rd(M, s0.json) \in WHITESPACE THEN [s |-> s0, ctl |-> "abort"]
    ELSE SkipPopped(M, PopNest(M, s0))

\* the label done: of skip_value and what skip_value returns from it
SkipDone(s, entry, e) ==
    IF s.json = entry
    THEN [ret |-> 0, json |-> entry, errno |-> "EINVAL"]
    ELSE [ret |-> 1, json |-> s.json, errno |-> e]

\* the loop "while ( *json )" run to its end: how the loop is left and with
\* which locals.  A pass that leaves every local as it found it is repeated
\* for ever ("hang"): every other pass moves json forward.
RECURSIVE SkipLoop(_, _)

SkipAgain(M, s, r) ==
    IF r.ctl # "loop" THEN r
    ELSE IF r.s = s THEN [s |-> s, ctl |-> "hang"]
    ELSE SkipLoop(M, r.s)

SkipWhile(M, s) ==
    IF rd(M, s.json) = Ch["NUL"] THEN [s |-> s, ctl |-> "done"]
    ELSE SkipAgain(M, s, SkipIter(M, s))

SkipLoop(M, s0) == SkipWhile(M, [s0 EXCEPT !.hi = Max(@, s0.json)])

\* how skip_value returns once its loop is left with r
SkipReturn(r, p, e) ==
    IF r.ctl = "enomem"
    THEN [out |-> "ret", ret |-> 0, json |-> p, errno |-> "ENOMEM", s |-> r.s]
    ELSE IF r.ctl = "done"
    THEN [out |-> "ret", s |-> r.s] @@ SkipDone(r.s, p, e)
    ELSE [out |-> r.ctl, ret |-> 0, json |-> p, errno |-> e, s |-> r.s]

\* skip_value(&p) with errno = e and nest[] holding g on entry:
\*   out    "ret" (returned), "hang" (never returns), "abort" (assert failed)
\*   ret    the value returned, json the caller's pointer afterwards
skip_value(M, p, e, g) ==
    IF p = NULL
    THEN [out |-> "ret", ret |-> 0, json |-> p, errno |-> "EINVAL",
          s |-> SkipLocals(p, g)]
    ELSE SkipReturn(SkipLoop(M, SkipLocals(p, g)), p, e)

\* what json_span makes of skip_value's return r
SpanLength(r, json) ==
    [out |-> r.out, errno |-> r.errno, s |-> r.s,
     n |-> IF r.ret = 0 THEN 0 ELSE r.json - json]

\* json_span(json): n is the value returned
json_span(M, json, e, g) ==
    SpanLength(skip_value(M, skip_white(M, Cursor(json, 0)).json, e, g), json)

(***************************************************************************)
(* Texts.                                                                  *)
(***************************************************************************)
Alphabet == {Ch["["], Ch["]"], Ch["{"], Ch["}"], Ch[":"], Ch[","], Ch["\""],
             Ch["\\"], Ch[" "], Ch["a"], Ch["^A"]}

TextsOver(A, n) == UNION {[1 .. k -> A] : k \in 0 .. n}

Repeat(ch, n) == [i \in 1 .. n |-> ch]

\* [[...[[value]]...]]
nested_array(depth, value) ==
    Repeat(Ch["["], depth) \o value \o Repeat(Ch["]"], depth)

\* {key:{key:...{key:value}...}}
RECURSIVE nested_object(_, _, _)
nested_object(depth, key, value) ==
    IF depth = 0 THEN value
    ELSE <<Ch["{"]>> \o key \o <<Ch[":"]>>
         \o nested_object(depth - 1, key, value) \o <<Ch["}"]>>

NestedTexts ==
    {nested_array(d, <<Ch["0"]>>) : d \in 0 .. MaxDepth}
    \cup {nested_object(d, <<Ch["\""], Ch["a"], Ch["\""]>>, <<Ch["0"]>>) :
            d \in 0 .. MaxDepth}

\* what the byte after the terminating NUL can be, when there is one
Slacks == {<<>>, <<Ch[" "]>>, <<Ch["a"]>>}

SkipTexts == TextsOver(Alphabet, MaxLen) \cup NestedTexts

(***************************************************************************)
(* State.                                                                  *)
(*   text, slack   the memory of the JSON text                             *)
(*   garbage       what the uninitialised nest[] of skip_value holds       *)
(*   errno         the C errno                                             *)
(*   op, arg       the public function last called and its json argument   *)
(*   pc            where that call stands                                  *)
(*   st, jp        inside skip_value: its locals, and the caller's pointer *)
(*                 *json_ptr, which is the local json of json_span         *)
(*   ret           the value the call returned                             *)
(*   ji, key       the caller's iterator variable and key_return storage   *)
(*   hist          what the calls on ji have returned so far               *)
(*   query         the path and arguments of the last selection            *)
(***************************************************************************)
VARIABLES text, slack, garbage, errno, op, arg, pc, st, jp, ret, ji, key,
          hist, query

vars == <<text, slack, garbage, errno, op, arg, pc, st, jp, ret, ji, key,
          hist, query>>

Mem == Memory(text, slack)

\* a pointer value that points into no text ("placeholder" of t-object.c)
PLACEHOLDER == -1

ZeroNest == [i \in 0 .. max_offset - 1 |-> 0]

OnesNest == [i \in 0 .. max_offset - 1 |-> Pow2(WordBits) - 1]

\* no call has been made yet
Init ==
    /\ text = <<>>
    /\ slack = <<>>
    /\ garbage = ZeroNest
    /\ errno = "0"
    /\ op = "none"
    /\ arg = NULL
    /\ pc = "idle"
    /\ st = SkipLocals(NULL, ZeroNest)
    /\ jp = NULL
    /\ ret = 0
    /\ ji = NULL
    /\ key = PLACEHOLDER
    /\ hist = <<>>
    /\ query = <<>>

(***************************************************************************)
(* json_span, one pass of the loop of skip_value at a time.                *)
(***************************************************************************)
\* json_span(a) is called on a text, and runs up to the loop of skip_value
SpanEntered(t, sl, g, a, c) ==
    /\ text' = t
    /\ slack' = sl
    /\ garbage' = g
    /\ arg' = a
    /\ op' = "json_span"
    /\ jp' = c.json
    /\ st' = SkipLocals(c.json, g)
    /\ IF c.json = NULL
       THEN errno' = "EINVAL" /\ ret' = 0 /\ pc' = "returned"
       ELSE pc' = "loop" /\ UNCHANGED <<errno, ret>>

SpanEnter ==
    /\ pc = "idle"
    /\ \E t \in SkipTexts, sl \in Slacks, g \in NestContents :
         \E a \in (IF t = <<>> THEN {NULL, 1} ELSE {1}) :
            SpanEntered(t, sl, g, a, skip_white(Memory(t, sl), Cursor(a, 0)))
    /\ UNCHANGED <<ji, key, hist, query>>

\* where a pass that ended with r leaves skip_value
SkipPassed(r) ==
    /\ st' = [r.s EXCEPT !.passes = @ + 1]
    /\ pc' = CASE r.ctl = "loop" -> "loop"
               [] r.ctl = "done" -> "done"
               [] r.ctl = "enomem" -> "returned"
               [] r.ctl = "abort" -> "aborted"
    /\ errno' = IF r.ctl = "enomem" THEN "ENOMEM" ELSE errno
    /\ ret' = IF r.ctl = "enomem" THEN 0 ELSE ret

\* one pass through the body of the loop.  A pass moves json forward or
\* else changes nothing and is repeated for ever; the model follows such a
\* loop for as many passes as the memory has bytes.
SkipPass ==
    /\ pc = "loop"
    /\ rd(Mem, st.json) # Ch["NUL"]
    /\ st.passes <= Len(Mem.bytes)
    /\ SkipPassed(SkipIter(Mem, [st EXCEPT !.hi = Max(@, st.json)]))
    /\ UNCHANGED <<text, slack, garbage, op, arg, jp, ji, key, hist, query>>

\* the loop ends at a NUL
SkipEos ==
    /\ pc = "loop"
    /\ rd(Mem, st.json) = Ch["NUL"]
    /\ st' = [st EXCEPT !.hi = Max(@, st.json)]
    /\ pc' = "done"
    /\ UNCHANGED <<text, slack, garbage, errno, op, arg, jp, ret, ji, key,
                   hist, query>>

\* done: of skip_value, and the return of json_span
SpanReturned(d) ==
    /\ errno' = d.errno
    /\ jp' = d.json
    /\ ret' = IF d.ret = 0 THEN 0 ELSE d.json - arg

SpanReturn ==
    /\ pc = "done"
    /\ SpanReturned(SkipDone(st, jp, errno))
    /\ pc' = "returned"
    /\ UNCHANGED <<text, slack, garbage, op, arg, st, ji, key, hist, query>>

NextSkip == SpanEnter \/ SkipPass \/ SkipEos \/ SpanReturn

SpecSkip == Init /\ [][NextSkip]_vars

(***************************************************************************)
(* The iterators.  Each operator gives the outcome of one call:            *)
(*   out    "ret" (returned), "hang" or "abort" (a skip_value inside did   *)
(*          not return)                                                    *)
(*   ret    the value returned; ji, key, errno: the iterator variable, the *)
(*          key_return storage and errno after the call                    *)
(*   value  the local of that name (where the call looked for the value)   *)
(***************************************************************************)
AsObject(d, e) ==
    IF d.r = 0 THEN [ret |-> NULL, errno |-> "EINVAL"]
    ELSE [ret |-> d.c.json, errno |-> e]

json_as_object(M, json, e) ==
    AsObject(can_skip_delim(M, skip_white(M, Cursor(json, 0)), Ch["{"]), e)

\* "if (!key || *key == '}')": the iterator is NULL or stands at the end
ObjectAtEndOnlyNull(M, it) == it = NULL

ObjectAtEnd(M, it) == it = NULL \/ rd(M, it) = Ch["}"]

\* "return NULL" at the end: what it leaves in the iterator and in key_return
ObjectEndStoresKey(it, k, keyret) == [ji |-> it, key |-> IF keyret THEN it ELSE k]

ObjectEndConsumes(it, k, keyret) ==
    [ji |-> IF it = NULL THEN NULL ELSE it + 1, key |-> k]

ObjectEnd(it, k, keyret) == [ji |-> it, key |-> k]

\* the comma after the value is skipped if there is one, and the member is
\* returned
ObjectMember(it, k, keyret, r1, d1, r2, d2) ==
    [out |-> "ret", ret |-> d1.c.json,
     ji |-> IF r1.ret = 1 \/ d1.r = 1 \/ r2.ret = 1 \/ d2.r = 1
            THEN d2.c.json ELSE NULL,
     key |-> IF keyret THEN it ELSE k,
     errno |-> r2.errno, value |-> d1.c.json]

\* r2 is what skip_value(json_ptr) made of the value
ObjectValue(M, it, k, keyret, r1, d1, r2) ==
    IF r2.out # "ret"
    THEN [out |-> r2.out, ret |-> NULL, ji |-> d1.c.json, key |-> k,
          errno |-> r1.errno, value |-> d1.c.json]
    ELSE ObjectMember(it, k, keyret, r1, d1, r2,
                      can_skip_delim(M, Cursor(r2.json, 0), Ch[","]))

\* d1 is what can_skip_char(json_ptr, ':') found after the key
ObjectColon(M, it, k, keyret, g, r1, d1) ==
    ObjectValue(M, it, k, keyret, r1, d1, skip_value(M, d1.c.json, r1.errno, g))

\* r1 is what skip_value(json_ptr) made of the key
ObjectKey(M, it, k, keyret, e, g, r1) ==
    IF r1.out # "ret"
    THEN [out |-> r1.out, ret |-> NULL, ji |-> it, key |-> k,
          errno |-> e, value |-> NULL]
    ELSE ObjectColon(M, it, k, keyret, g, r1,
                     can_skip_delim(M, Cursor(r1.json, 0), Ch[":"]))

\* json_object_next(&it, keyret ? &k : NULL)
json_object_next(M, it, k, keyret, e, g) ==
    IF ObjectAtEnd(M, it)
    THEN [out |-> "ret", ret |-> NULL, errno |-> e, value |-> NULL]
         @@ ObjectEnd(it, k, keyret)
    ELSE ObjectKey(M, it, k, keyret, e, g, skip_value(M, it, e, g))

\* begin_array of the specification
AsArray(d, e) ==
    IF d.r = 0 THEN [ret |-> NULL, errno |-> "EINVAL"]
    ELSE [ret |-> d.c.json, errno |-> e]

json_as_array(M, json, e) ==
    AsArray(can_skip_delim(M, skip_white(M, Cursor(json, 0)), Ch["["]), e)

\* array_next of the specification: the element at it is returned and the
\* iterator moved past it and the comma that follows
ArrayElement(it, r, d) ==
    [out |-> "ret", ret |-> it,
     ji |-> IF r.ret = 1 \/ d.r = 1 THEN d.c.json ELSE NULL,
     errno |-> r.errno, value |-> it]

ArrayValue(M, it, e, r) ==
    IF r.out # "ret"
    THEN [out |-> r.out, ret |-> NULL, ji |-> it, errno |-> e, value |-> it]
    ELSE ArrayElement(it, r, can_skip_delim(M, Cursor(r.json, 0), Ch[","]))

json_array_next(M, it, e, g) ==
    IF it = NULL \/ rd(M, it) = Ch["]"]
    THEN [out |-> "ret", ret |-> NULL, ji |-> it, errno |-> e, value |-> NULL]
    ELSE ArrayValue(M, it, e, skip_value(M, it, e, g))

(***************************************************************************)
(* Texts to iterate over: every short text behind an opening bracket, the  *)
(* well-formed objects of up to MaxMembers members, and members and        *)
(* elements nested deeper than skip_value can follow.                      *)
(***************************************************************************)
IterAlphabet == {Ch["["], Ch["]"], Ch["{"], Ch["}"], Ch[":"], Ch[","],
                 Ch["\""], Ch[" "], Ch["a"]}

\* members of a well-formed object
MaxMembers == 2

Keys == {<<Ch["\""], Ch["a"], Ch["\""]>>, <<Ch["b"]>>}

Values == {<<Ch["0"]>>, <<Ch["\""], Ch["a"], Ch["\""]>>, <<Ch["{"], Ch["}"]>>,
           <<Ch["["], Ch["0"], Ch[","], Ch["0"], Ch["]"]>>,
           nested_array(max_offset * WordBits, <<Ch["0"]>>)}

\* the object whose members are ms[i] = <<key, value>>, with sp after every
\* token and, when extra, a comma after the last member; kp and vp are the
\* positions of the keys and the values in the text t
RECURSIVE ObjectFrom(_, _, _, _, _)
ObjectFrom(ms, sp, extra, i, acc) ==
    IF i > Len(ms) THEN [acc EXCEPT !.t = @ \o <<Ch["}"]>>]
    ELSE LET t1 == acc.t \o ms[i][1] \o sp \o <<Ch[":"]>> \o sp
             t2 == t1 \o ms[i][2] \o sp
             t3 == IF i < Len(ms) \/ extra THEN t2 \o <<Ch[","]>> \o sp ELSE t2
         IN  ObjectFrom(ms, sp, extra, i + 1,
                        [t |-> t3, kp |-> Append(acc.kp, Len(acc.t) + 1),
                         vp |-> Append(acc.vp, Len(t1) + 1)])

\* one extra comma is allowed after the last member, when there is one
ObjectShapes ==
    {x \in (UNION {[1 .. n -> Keys \X Values] : n \in 0 .. MaxMembers})
             \X {<<>>, <<Ch[" "]>>} \X BOOLEAN : x[3] => Len(x[1]) > 0}

WfObjects ==
    {ObjectFrom(x[1], x[2], x[3], 1,
                [t |-> <<Ch["{"]>> \o x[2], kp |-> <<>>, vp |-> <<>>]) :
        x \in ObjectShapes}

\* a member, or an element, nested one level deeper than the limit
DeepTexts ==
    {<<Ch["{"], Ch["a"], Ch[":"]>> \o nested_array(max_offset * WordBits + 1, <<Ch["0"]>>)
        \o <<Ch[","], Ch["b"], Ch[":"], Ch["0"], Ch["}"]>>,
     <<Ch["["]>> \o nested_array(max_offset * WordBits + 1, <<Ch["0"]>>)
        \o <<Ch[","], Ch["0"], Ch["]"]>>}

IterTexts ==
    {<<Ch["{"]>> \o t : t \in TextsOver(IterAlphabet, MaxLen)}
    \cup {<<Ch["["]>> \o t : t \in TextsOver(IterAlphabet, MaxLen)}
    \cup {ob.t : ob \in WfObjects}
    \cup DeepTexts

(***************************************************************************)
(* The iterators, a call at a time.  hist records each call made on the    *)
(* iterator variable ji since it was last assigned.  The skip_value calls  *)
(* inside find nest[] all zeros or all ones: SkipAgrees shows that its     *)
(* content on entry does not count.                                        *)
(***************************************************************************)
\* i = json_as_object(text) or i = json_as_array(text)
AsIterated(t, sl, g, f, r) ==
    /\ text' = t
    /\ slack' = sl
    /\ garbage' = g
    /\ arg' = 1
    /\ op' = f
    /\ ji' = r.ret
    /\ ret' = r.ret
    /\ errno' = r.errno

AsIterator ==
    /\ pc = "idle"
    /\ \E t \in IterTexts, sl \in Slacks, g \in {ZeroNest, OnesNest} :
         \/ AsIterated(t, sl, g, "json_as_object",
                       json_as_object(Memory(t, sl), 1, errno))
         \/ AsIterated(t, sl, g, "json_as_array",
                       json_as_array(Memory(t, sl), 1, errno))
    /\ pc' = "returned"
    /\ hist' = <<>>
    /\ UNCHANGED <<st, jp, key, query>>

\* what a call on the iterator leaves behind
IterCalled(f, r, keyret) ==
    IF r.out = "ret"
    THEN /\ pc' = "returned"
         /\ ji' = r.ji
         /\ ret' = r.ret
         /\ errno' = r.errno
         /\ key' = r.key
         /\ hist' = Append(hist, [f |-> f, it |-> ji, ret |-> r.ret,
                                  keyret |-> keyret, kbefore |-> key,
                                  key |-> r.key, errno |-> r.errno,
                                  value |-> r.value])
    ELSE /\ pc' = IF r.out = "hang" THEN "hung" ELSE "aborted"
         /\ UNCHANGED <<ji, ret, errno, key, hist>>

\* json_object_next(&i, &key) or json_object_next(&i, NULL)
ObjectNext ==
    /\ pc \in {"idle", "returned"}
    /\ op \in {"none", "json_as_object", "json_object_next"}
    /\ Len(hist) < MaxCalls
    /\ \E keyret \in BOOLEAN :
         IterCalled("json_object_next",
                    json_object_next(Mem, ji, key, keyret, errno, garbage), keyret)
    /\ op' = "json_object_next"
    /\ UNCHANGED <<text, slack, garbage, arg, st, jp, query>>

\* json_array_next(&i)
ArrayNext ==
    /\ pc \in {"idle", "returned"}
    /\ op \in {"none", "json_as_array", "json_array_next"}
    /\ Len(hist) < MaxCalls
    /\ IterCalled("json_array_next",
                  json_array_next(Mem, ji, errno, garbage) @@ [key |-> key], FALSE)
    /\ op' = "json_array_next"
    /\ UNCHANGED <<text, slack, garbage, arg, st, jp, query>>

NextIter == AsIterator \/ ObjectNext \/ ArrayNext

SpecIter == Init /\ [][NextIter]_vars

(***************************************************************************)
(* The grammar of a well-formed value (RFC 7159 with the extensions of     *)
(* README.md: single-quoted strings, words, one extra comma at the end of  *)
(* an array or object).  WfValueEnd(t, p) is the position just after the   *)
(* value that starts at p, or 0 when no well-formed value starts there.    *)
(***************************************************************************)
At(t, p) == IF p >= 1 /\ p <= Len(t) THEN t[p] ELSE Ch["NUL"]

RECURSIVE WfWhite(_, _)
WfWhite(t, p) == IF At(t, p) \in WHITESPACE THEN WfWhite(t, p + 1) ELSE p

RECURSIVE WfStringEnd(_, _, _)
WfStringEnd(t, p, quote) ==
    IF p > Len(t) THEN 0
    ELSE IF t[p] = quote THEN p + 1
    ELSE IF t[p] = Ch["\\"] THEN WfStringEnd(t, p + 2, quote)
    ELSE WfStringEnd(t, p + 1, quote)

RECURSIVE WfWordEnd(_, _)
WfWordEnd(t, p) == IF is_word_char(At(t, p)) THEN WfWordEnd(t, p + 1) ELSE p

WfScalarEnd(t, p) ==
    IF At(t, p) = Ch["\""] \/ At(t, p) = Ch["'"] THEN WfStringEnd(t, p + 1, t[p])
    ELSE IF is_word_start(At(t, p)) THEN WfWordEnd(t, p + 1)
    ELSE 0

RECURSIVE WfValueEnd(_, _)
RECURSIVE WfItemsEnd(_, _, _)
WfValueEnd(t, p) ==
    IF At(t, p) = Ch["["] \/ At(t, p) = Ch["{"]
    THEN LET close == IF t[p] = Ch["["] THEN Ch["]"] ELSE Ch["}"]
             q == WfWhite(t, p + 1)
         IN  IF At(t, q) = close THEN q + 1 ELSE WfItemsEnd(t, q, close)
    ELSE WfScalarEnd(t, p)

\* the elements or members from p up to and including the closing bracket
WfItemsEnd(t, p, close) ==
    LET k == IF close = Ch["]"] THEN p ELSE WfScalarEnd(t, p)
        c == WfWhite(t, k)
        v == IF close = Ch["]"] THEN WfValueEnd(t, p)
             ELSE IF k = 0 \/ At(t, c) # Ch[":"] THEN 0
             ELSE WfValueEnd(t, WfWhite(t, c + 1))
        q == WfWhite(t, v)
    IN  IF v = 0 THEN 0
        ELSE IF At(t, q) = close THEN q + 1
        ELSE IF At(t, q) # Ch[","] THEN 0
        ELSE LET n == WfWhite(t, q + 1)
             IN  IF At(t, n) = close THEN n + 1 ELSE WfItemsEnd(t, n, close)

\* the text starts, after whitespace, with a well-formed value
WellFormedStart(t) == WfValueEnd(t, WfWhite(t, 1)) # 0

\* the deepest nesting the nesting stack can record
DepthLimit == max_offset * WordBits

IsNestedArray(t, d) == t = nested_array(d, <<Ch["0"]>>)

IsNestedObject(t, d) ==
    t = nested_object(d, <<Ch["\""], Ch["a"], Ch["\""]>>, <<Ch["0"]>>)

(***************************************************************************)
(* Comparing a key of the text with a C string (lib/stras.c, word.c), and  *)
(* the UTF-8 decoders it shares with the string conversions.  get_utf8_raw *)
(* is given the four bytes p[0] .. p[3]; the C code reads p[k] only when   *)
(* the bytes before it have the form of a longer sequence.                 *)
(***************************************************************************)
\* a byte of the form 10xxxxxx
IsContinuation(b) == b \div 64 = 2

\* the branches of get_utf8_raw for two, three and four bytes: u is the
\* code point decoded, which is refused when a shorter form holds it
Utf8Raw2(u) == IF u < 128 THEN [n |-> 0, u |-> u] ELSE [n |-> 2, u |-> u]

\* a variant that accepts a code point a shorter form holds
Utf8Raw3Overlong(u) == [n |-> 3, u |-> u]

Utf8Raw3(u) == IF u < 2048 THEN [n |-> 0, u |-> u] ELSE [n |-> 3, u |-> u]

Utf8Raw4(u) == IF u < 65536 THEN [n |-> 0, u |-> u] ELSE [n |-> 4, u |-> u]

get_utf8_raw(p0, p1, p2, p3) ==
    IF p0 < 128 THEN [n |-> 1, u |-> p0]
    ELSE IF p0 \div 32 = 6 /\ IsContinuation(p1)
    THEN Utf8Raw2((p1 % 64) + (p0 % 32) * 64)
    ELSE IF p0 \div 16 = 14 /\ IsContinuation(p1) /\ IsContinuation(p2)
    THEN Utf8Raw3((p2 % 64) + (p1 % 64) * 64 + (p0 % 16) * 4096)
    ELSE IF p0 \div 8 = 30 /\ IsContinuation(p1) /\ IsContinuation(p2)
            /\ IsContinuation(p3)
    THEN Utf8Raw4((p3 % 64) + (p2 % 64) * 64 + (p1 % 64) * 4096
                  + (p0 % 8) * 262144)
    ELSE [n |-> 0, u |-> 0]

\* the length that the first byte of a sequence announces, 0 if none
Utf8Expected(p0) ==
    IF p0 < 128 THEN 1
    ELSE IF p0 \div 32 = 6 THEN 2
    ELSE IF p0 \div 16 = 14 THEN 3
    ELSE IF p0 \div 8 = 30 THEN 4
    ELSE 0

\* get_utf8_raw_bounded(cstr + i, cstr_end, &su), i counted from 1 and
\* cstr_end being the end of cstr
get_utf8_raw_bounded(cstr, i) ==
    IF i > Len(cstr) \/ Utf8Expected(cstr[i]) = 0
       \/ i + Utf8Expected(cstr[i]) > Len(cstr) + 1
    THEN [n |-> 0, u |-> 0]
    ELSE get_utf8_raw(cstr[i], At(cstr, i + 1), At(cstr, i + 2), At(cstr, i + 3))

IS_SURROGATE(u) == u \div 2048 = 27

IS_SURROGATE_HI(u) == u \div 1024 = 54

IS_SURROGATE_LO(u) == u \div 1024 = 55

IS_DCxx(u) == u \div 256 = 220

\* a variant that lets the surrogates pass
IS_UTF8_SAFEAnySurrogate(u) == u <= 1114111

IS_UTF8_SAFE(u) == u <= 1114111 /\ ~IS_SURROGATE(u)

\* the code point decoded at p and the pointer after it
Decoded(M, p, r) ==
    IF r.n = 0 \/ r.u = 0 \/ r.u > 1114111 \/ IS_SURROGATE(r.u)
    THEN [u |-> 56320 + rd(M, p), json |-> p + 1]
    ELSE [u |-> r.u, json |-> p + r.n]

get_utf8_sanitized(M, p) ==
    Decoded(M, p, get_utf8_raw(rd(M, p), rd(M, p + 1), rd(M, p + 2), rd(M, p + 3)))

\* the one-letter escapes of get_escaped_sanitized
Escapes ==
    Ch["\""] :> 34 @@ Ch["'"] :> 39 @@ Ch["\\"] :> 92 @@ Ch["/"] :> 47
    @@ Ch["b"] :> 8 @@ Ch["f"] :> 12 @@ Ch["n"] :> 10 @@ Ch["r"] :> 13
    @@ Ch["t"] :> 9

isxdigit(ch) ==
    \/ ch >= 48 /\ ch <= 57
    \/ ch >= 65 /\ ch <= 70
    \/ ch >= 97 /\ ch <= 102

\* (ch & 0xf) + (ch & 0x10 ? 0 : 9)
xdigit_as_int(ch) == (ch % 16) + (IF (ch \div 16) % 2 = 1 THEN 0 ELSE 9)

\* the loop of four_xdigits, which ends after four digits or at a NUL: r
\* is what it returns, u the number and json the pointer (both as they were
\* when r is 0)
RECURSIVE four_xdigits(_, _, _, _)
four_xdigits(M, p, i, result) ==
    IF i = 4 \/ rd(M, p) = Ch["NUL"] THEN [r |-> 1, u |-> result, json |-> p]
    ELSE IF ~isxdigit(rd(M, p)) THEN [r |-> 0, u |-> 0, json |-> p]
    ELSE four_xdigits(M, p + 1, i + 1, result * 16 + xdigit_as_int(rd(M, p)))

\* "The escape sequence was unrecognised; sanitize the \"
BadEscape(after_backslash) == [u |-> 56412, json |-> after_backslash]

\* the low half of a surrogate pair: lo is what four_xdigits made of it
EscapedLow(after_backslash, hi, lo) ==
    IF lo.r = 0 \/ ~IS_SURROGATE_LO(lo.u) THEN BadEscape(after_backslash)
    ELSE [u |-> (hi % 1024) * 1024 + (lo.u % 1024) + 65536, json |-> lo.json]

\* case 'u': x is what four_xdigits made of the digits
EscapedCode(M, after_backslash, x) ==
    IF x.r = 0 \/ x.u = 0 \/ IS_SURROGATE_LO(x.u) THEN BadEscape(after_backslash)
    ELSE IF ~IS_SURROGATE_HI(x.u) THEN [u |-> x.u, json |-> x.json]
    ELSE IF rd(M, x.json) # Ch["\\"] \/ rd(M, x.json + 1) # Ch["u"]
    THEN BadEscape(after_backslash)
    ELSE EscapedLow(after_backslash, x.u, four_xdigits(M, x.json + 2, 0, 0))

\* d is what get_utf8_sanitized decoded; after a backslash, the escape
Unescaped(M, d) ==
    IF d.u # Ch["\\"] THEN d
    ELSE IF rd(M, d.json) \in DOMAIN Escapes
    THEN [u |-> Escapes[rd(M, d.json)], json |-> d.json + 1]
    ELSE IF rd(M, d.json) = Ch["u"]
    THEN EscapedCode(M, d.json, four_xdigits(M, d.json + 1, 0, 0))
    ELSE BadEscape(d.json)

get_escaped_sanitized(M, p) == Unescaped(M, get_utf8_sanitized(M, p))

\* string_cmp: the loop "while (cstr < cstr_end)", p being json and i the
\* index of cstr in the C string
RECURSIVE StringCmpFrom(_, _, _, _, _)

StringCmpCode(M, quote, cstr, i, su, ju) ==
    IF ju.u # su.u THEN (IF ju.u < su.u THEN -1 ELSE 1)
    ELSE StringCmpFrom(M, ju.json, quote, cstr, i + su.n)

StringCmpChar(M, p, quote, cstr, i, su) ==
    IF su.n = 0 THEN 1
    ELSE StringCmpCode(M, quote, cstr, i, su, get_escaped_sanitized(M, p))

StringCmpFrom(M, p, quote, cstr, i) ==
    IF i <= Len(cstr)
    THEN IF rd(M, p) = Ch["NUL"] \/ rd(M, p) = quote THEN -1
         ELSE StringCmpChar(M, p, quote, cstr, i, get_utf8_raw_bounded(cstr, i))
    ELSE IF rd(M, p) = Ch["NUL"] THEN -1
    ELSE IF rd(M, p) = quote THEN 0
    ELSE 1

string_cmp(M, json, cstr) == StringCmpFrom(M, json + 1, rd(M, json), cstr, 1)

\* word_strcmpn: what follows its loop, strsz bytes of str being left
WordCmpEnd(M, p, strsz) ==
    IF strsz # 0 THEN -1 ELSE IF is_word_char(rd(M, p)) THEN 1 ELSE 0

\* the do-while loop of word_strcmpn, k being the index of str in the string
RECURSIVE WordCmpFrom(_, _, _, _)
WordCmpFrom(M, p, str, k) ==
    IF rd(M, p) # str[k] THEN (IF rd(M, p) < str[k] THEN -1 ELSE 1)
    ELSE IF is_word_char(rd(M, p + 1)) /\ k < Len(str)
    THEN WordCmpFrom(M, p + 1, str, k + 1)
    ELSE WordCmpEnd(M, p + 1, Len(str) - k)

word_strcmpn(M, json, str) ==
    IF json = NULL \/ ~is_word_start(rd(M, json))
    THEN (IF Len(str) # 0 THEN -1 ELSE 0)
    ELSE IF Len(str) # 0 THEN WordCmpFrom(M, json, str, 1)
    ELSE WordCmpEnd(M, json, 0)

\* json_strcmpn once the whitespace is skipped: r is the value returned
StrcmpnAt(M, p, cstr, e) ==
    IF p # NULL /\ (rd(M, p) = Ch["'"] \/ rd(M, p) = Ch["\""])
    THEN [r |-> string_cmp(M, p, cstr), errno |-> e]
    ELSE [r |-> IF p = NULL \/ is_delimiter(rd(M, p))
                THEN (IF Len(cstr) # 0 THEN -1 ELSE 0)
                ELSE word_strcmpn(M, p, cstr),
          errno |-> "EINVAL"]

json_strcmpn(M, json, cstr, e) ==
    StrcmpnAt(M, skip_white(M, Cursor(json, 0)).json, cstr, e)

(***************************************************************************)
(* json_selectv (libjson/select.c).  A query Q holds the path and the      *)
(* variable arguments ap; each argument gives what va_arg reads from it as *)
(* an int and as a char pointer (str: <<>> for a NULL pointer, <<s>> for   *)
(* the string s).  The locals are c: json, the position p in the path, the *)
(* number a of the next argument, first and errno.                         *)
(***************************************************************************)
\* bits of an unsigned int (32 in a build), scaled down
UintBits == 5

UINT_MAX == Pow2(UintBits) - 1

isdigit(ch) == ch >= Ch["0"] /\ ch <= Ch["9"]

\* strchr("[.", ch), which finds the terminating NUL of "[." too
InBracketDot(ch) == ch \in {Ch["["], Ch["."], Ch["NUL"]}

SelectFail(e) == [out |-> "ret", ret |-> NULL, errno |-> e]

\* what follows the loop "while (json && *path)"
SelectEndAlt(c) ==
    IF c.json # NULL
    THEN [out |-> "ret", ret |-> IF c.first THEN c.json ELSE c.json + 1,
          errno |-> "0"]
    ELSE SelectFail("ENOENT")

SelectEnd(c) ==
    IF c.json # NULL THEN [out |-> "ret", ret |-> c.json, errno |-> "0"]
    ELSE SelectFail("ENOENT")

RECURSIVE SelectLoop(_, _, _, _)
RECURSIVE SelectNth(_, _, _, _, _, _, _)
RECURSIVE SelectFind(_, _, _, _, _, _, _)

\* "while ((json = json_array_next(&ji))) { if (!index--) break; }", r being
\* what json_array_next returned
SelectNthStep(M, Q, g, c, index, r) ==
    IF r.out # "ret" THEN [out |-> r.out, ret |-> NULL, errno |-> r.errno]
    ELSE IF r.ret = NULL \/ index = 0
    THEN SelectLoop(M, Q, g, [c EXCEPT !.json = r.ret, !.first = FALSE,
                                       !.errno = r.errno])
    ELSE SelectNth(M, Q, g, c, index - 1, r.ji, r.errno)

SelectNth(M, Q, g, c, index, it, e) ==
    SelectNthStep(M, Q, g, c, index, json_array_next(M, it, e, g))

\* "ji = json_as_array(json); if (!ji) goto enoent;"
SelectElement(M, Q, g, c, index, ia) ==
    IF ia.ret = NULL THEN SelectFail("ENOENT")
    ELSE SelectNth(M, Q, g, c, index, ia.ret, ia.errno)

\* "if (*path++ != ']') goto einval;"
SelectBracket(M, Q, g, c, index) ==
    IF At(Q.path, c.p) # Ch["]"] THEN SelectFail("EINVAL")
    ELSE SelectElement(M, Q, g, [c EXCEPT !.p = @ + 1], index,
                       json_as_array(M, c.json, c.errno))

\* the literal index: "while (isdigit(*path))"
RECURSIVE SelectDigits(_, _, _, _, _)
SelectDigits(M, Q, g, c, index) ==
    IF ~isdigit(At(Q.path, c.p)) THEN SelectBracket(M, Q, g, c, index)
    ELSE IF index = UINT_MAX \div 10
            /\ At(Q.path, c.p) - Ch["0"] > UINT_MAX % 10
    THEN SelectFail("EINVAL")
    ELSE SelectDigits(M, Q, g, [c EXCEPT !.p = @ + 1],
                      (index * 10 + (At(Q.path, c.p) - Ch["0"])) % (UINT_MAX + 1))

\* "[%d]": n is va_arg(ap, int)
SelectSigned(M, Q, g, c, n) ==
    IF n < 0
    THEN SelectLoop(M, Q, g, [c EXCEPT !.json = NULL, !.first = FALSE])
    ELSE SelectBracket(M, Q, g, c, n)

\* case '[', path standing after the bracket
SelectIndex(M, Q, g, c) ==
    IF At(Q.path, c.p) = Ch["%"] /\ At(Q.path, c.p + 1) = Ch["d"]
    THEN SelectSigned(M, Q, g, [c EXCEPT !.p = @ + 2, !.a = @ + 1], Q.ap[c.a].int)
    ELSE IF At(Q.path, c.p) = Ch["%"] /\ At(Q.path, c.p + 1) = Ch["u"]
    THEN SelectBracket(M, Q, g, [c EXCEPT !.p = @ + 2, !.a = @ + 1],
                       Q.ap[c.a].int % (UINT_MAX + 1))
    ELSE IF ~isdigit(At(Q.path, c.p)) THEN SelectFail("EINVAL")
    ELSE SelectDigits(M, Q, g, c, 0)

\* "while ((json = json_object_next(&ji, &cur_key)))", r being what
\* json_object_next returned and m what json_strcmpn made of cur_key
SelectMatch(M, Q, g, c, cstr, r, m) ==
    IF m.r = 0
    THEN SelectLoop(M, Q, g, [c EXCEPT !.json = r.ret, !.first = FALSE,
                                       !.errno = m.errno])
    ELSE SelectFind(M, Q, g, c, cstr, r.ji, m.errno)

SelectFindStep(M, Q, g, c, cstr, r) ==
    IF r.out # "ret" THEN [out |-> r.out, ret |-> NULL, errno |-> r.errno]
    ELSE IF r.ret = NULL
    THEN SelectLoop(M, Q, g, [c EXCEPT !.json = NULL, !.first = FALSE,
                                       !.errno = r.errno])
    ELSE SelectMatch(M, Q, g, c, cstr, r, json_strcmpn(M, r.key, cstr, r.errno))

SelectFind(M, Q, g, c, cstr, it, e) ==
    SelectFindStep(M, Q, g, c, cstr, json_object_next(M, it, NULL, TRUE, e, g))

\* "ji = json_as_object(json); if (!ji) goto enoent;"
SelectMember(M, Q, g, c, cstr, io) ==
    IF io.ret = NULL THEN SelectFail("ENOENT")
    ELSE SelectFind(M, Q, g, c, cstr, io.ret, io.errno)

\* the literal key: "while (!strchr("[.", *path))"; where it ends, or 0 at
\* a '%' that is not followed by '%'
RECURSIVE KeyEnd(_, _)
KeyEnd(path, p) ==
    IF InBracketDot(At(path, p)) THEN p
    ELSE IF At(path, p) # Ch["%"] THEN KeyEnd(path, p + 1)
    ELSE IF At(path, p + 1) # Ch["%"] THEN 0
    ELSE KeyEnd(path, p + 2)

SelectLiteral(M, Q, g, c, q) ==
    IF q = 0 THEN SelectFail("EINVAL")
    ELSE SelectMember(M, Q, g, [c EXCEPT !.p = q], SubSeq(Q.path, c.p, q - 1),
                      json_as_object(M, c.json, c.errno))

\* ".%s": cstr is va_arg(ap, const char *)
SelectString(M, Q, g, c, cstr) ==
    IF ~InBracketDot(At(Q.path, c.p)) \/ cstr = <<>> THEN SelectFail("EINVAL")
    ELSE SelectMember(M, Q, g, c, cstr[1], json_as_object(M, c.json, c.errno))

\* case '.', path standing at the key
SelectKey(M, Q, g, c) ==
    IF At(Q.path, c.p) = Ch["%"] /\ At(Q.path, c.p + 1) = Ch["s"]
    THEN SelectString(M, Q, g, [c EXCEPT !.p = @ + 2, !.a = @ + 1], Q.ap[c.a].str)
    ELSE SelectLiteral(M, Q, g, c, KeyEnd(Q.path, c.p))

\* one path component: the switch of json_selectv
SelectLoop(M, Q, g, c) ==
    IF c.json = NULL \/ At(Q.path, c.p) = Ch["NUL"] THEN SelectEnd(c)
    ELSE IF At(Q.path, c.p) = Ch["["]
    THEN SelectIndex(M, Q, g, [c EXCEPT !.p = @ + 1])
    ELSE IF At(Q.path, c.p) = Ch["."]
    THEN SelectKey(M, Q, g, [c EXCEPT !.p = @ + 1])
    ELSE IF ~c.first THEN SelectFail("EINVAL")
    ELSE SelectKey(M, Q, g, c)

json_selectvSkippingWhite(M, json, Q, e, g) ==
    SelectLoop(M, Q, g, [json |-> IF json = NULL THEN NULL ELSE WhiteEnd(M, json),
                         p |-> 1, a |-> 1, first |-> TRUE, errno |-> e])

json_selectv(M, json, Q, e, g) ==
    SelectLoop(M, Q, g, [json |-> json, p |-> 1, a |-> 1, first |-> TRUE,
                         errno |-> e])

\* json_select: sel is the value selected and selerrno the errno that
\* json_selectv left
Returned(r) == r @@ [sel |-> r.ret, selerrno |-> r.errno]

json_select(M, json, Q, e, g) == Returned(json_selectv(M, json, Q, e, g))

\* "return sel ? CONV(sel) : default_;" of IMPL_DEFAULT_SELECT, r being what
\* json_selectv returned and conv what CONV makes of a selected value
DefaultSelected(r, conv, default_) ==
    IF r.out # "ret" THEN Returned(r)
    ELSE IF r.ret # NULL THEN [Returned(r) EXCEPT !.ret = conv.ret, !.errno = conv.errno]
    ELSE [Returned(r) EXCEPT !.ret = default_]

SelectedObject(M, r, default_) ==
    DefaultSelected(r, json_as_object(M, r.ret, r.errno), default_)

json_default_select_object(M, default_, json, Q, e, g) ==
    SelectedObject(M, json_selectv(M, json, Q, e, g), default_)

SelectedArray(M, r, default_) ==
    DefaultSelected(r, json_as_array(M, r.ret, r.errno), default_)

json_default_select_array(M, default_, json, Q, e, g) ==
    SelectedArray(M, json_selectv(M, json, Q, e, g), default_)

(***************************************************************************)
(* Selections, a call at a time.  query records the path, the arguments    *)
(* and the default of the call and what json_selectv returned inside it    *)
(* (sel, selerrno).  The skip_value calls inside find nest[] all zeros:    *)
(* SkipAgrees shows that its content on entry does not count.              *)
(***************************************************************************)
\* the bytes of a string written a character at a time
Text(cs) == [i \in DOMAIN cs |-> Ch[cs[i]]]

SelectTexts ==
    {Text(<<"{", "}">>),
     Text(<<"{", "\"", "a", "\"", ":", "[", "0", ",", "1", "]", "}">>),
     Text(<<"{", "a", ":", "[", "0", ",", "1", "]", ",", "b", ":", "0", "}">>),
     Text(<<" ", "{", "b", ":", "0", ",", " ", "a", ":", "[", " ", "1", "]", "}">>),
     Text(<<"{", "b", ":", "0", "}">>),
     Text(<<"{", "a", ":", "0", "}">>),
     Text(<<"[", "0", ",", "1", "]">>),
     Text(<<"[", "[", "0", "]", ",", "{", "a", ":", "1", "}", "]">>),
     Text(<<"0">>),
     Text(<<",">>),
     Text(<<"{", "a", ":", "[", "0", ",", ":", "]", "}">>),
     Text(<<"{", "a", ":", "[", "[", ":", "]", "]", "}">>),
     Text(<<"[", "{", ":", "}", "]">>),
     Text(<<"{", ":", ",", "a", ":", "0", "}">>),
     Text(<<"{", "\"", "%", "a", "\"", ":", "0", "}">>),
     Text(<<"{", "\"", "%", "%", "a", "\"", ":", "0", "}">>)}

\* components of a path, and the paths of up to MaxComponents of them
MaxComponents == 2

Components ==
    {Text(<<".", "a">>), Text(<<"a">>), Text(<<".", "b">>),
     Text(<<"[", "0", "]">>), Text(<<"[", "1", "]">>),
     Text(<<"[", "-", "1", "]">>), Text(<<"[", "6", "4", "]">>),
     Text(<<"[", "%", "d", "]">>),
     Text(<<"[", "%", "u", "]">>), Text(<<".", "%", "s">>),
     Text(<<"%", "s">>), Text(<<".", "%", "%", "a">>)}

RECURSIVE Concat(_, _)
Concat(cs, i) == IF i > Len(cs) THEN <<>> ELSE cs[i] \o Concat(cs, i + 1)

ComponentPaths ==
    {Concat(cs, 1) : cs \in UNION {[1 .. n -> Components] : n \in 0 .. MaxComponents}}

\* every path of up to MaxPathLen characters of PathAlphabet
MaxPathLen == 3

PathAlphabet == {Ch["a"], Ch["["], Ch["]"], Ch["-"], Ch["%"], Ch["."], Ch["1"]}

Paths == ComponentPaths \cup TextsOver(PathAlphabet, MaxPathLen)

\* what a variable argument can be
Arguments ==
    {[int |-> -1, str |-> <<>>], [int |-> 0, str |-> <<Text(<<"a">>)>>],
     [int |-> 1, str |-> <<Text(<<"b">>)>>]}

\* a call passes an argument for every '%' of its path
ArgumentsFor(path) ==
    [1 .. Cardinality({i \in DOMAIN path : path[i] = Ch["%"]}) -> Arguments]

\* the selection (x, path, ap) is made in the text t or, x being NULL, in
\* nothing, and returns r
Selected(t, x, Q, default_, r) ==
    /\ text' = t
    /\ slack' = <<>>
    /\ garbage' = ZeroNest
    /\ arg' = x
    /\ query' = [path |-> Q.path, ap |-> Q.ap, default |-> default_,
                 sel |-> r.sel, selerrno |-> r.selerrno]
    /\ pc' = CASE r.out = "ret" -> "returned"
               [] r.out = "hang" -> "hung"
               [] r.out = "abort" -> "aborted"
    /\ ret' = r.ret
    /\ errno' = r.errno

\* the texts selected in: NULL is passed along with the empty object only
Selectable == {<<t, x>> \in SelectTexts \X {NULL, 1} : x = NULL => Len(t) = 2}

Queries(P) == UNION {[path : {path}, ap : ArgumentsFor(path)] : path \in P}

\* json_select (x, path, ...)
Select ==
    /\ pc = "idle"
    /\ \E tx \in Selectable, Q \in Queries(Paths) :
         Selected(tx[1], tx[2], Q, NULL,
                  json_select(Memory(tx[1], <<>>), tx[2], Q, errno, ZeroNest))
    /\ op' = "json_select"
    /\ UNCHANGED <<st, jp, ji, key, hist>>

\* the json_default_select_* wrappers
DefaultSelectors == {"json_default_select_object", "json_default_select_array"}

\* json_default_select_object (default, x, path, ...) or
\* json_default_select_array (default, x, path, ...), with a default that
\* points outside the text
DefaultSelect ==
    /\ pc = "idle"
    /\ \E tx \in Selectable, Q \in Queries(ComponentPaths) :
         \/ /\ Selected(tx[1], tx[2], Q, PLACEHOLDER,
                        json_default_select_object(Memory(tx[1], <<>>), PLACEHOLDER,
                                                   tx[2], Q, errno, ZeroNest))
            /\ op' = "json_default_select_object"
         \/ /\ Selected(tx[1], tx[2], Q, PLACEHOLDER,
                        json_default_select_array(Memory(tx[1], <<>>), PLACEHOLDER,
                                                  tx[2], Q, errno, ZeroNest))
            /\ op' = "json_default_select_array"
    /\ UNCHANGED <<st, jp, ji, key, hist>>

NextSelect == Select \/ DefaultSelect

SpecSelect == Init /\ [][NextSelect]_vars

(***************************************************************************)
(* C1.  Skipping a value never reads a byte located after the terminating  *)
(* NUL of the text, whatever the text: in every state of json_span the     *)
(* highest address skip_value has dereferenced is at most the address of   *)
(* the NUL.                                                                *)
(***************************************************************************)
C1_NoReadPastNul == st.hi <= Mem.nul

(***************************************************************************)
(* C2.  skip_value, and so json_span, returns after finitely many steps    *)
(* on every NUL-terminated input: every pass through its loop that does    *)
(* not leave the loop moves json forward, toward the NUL that ends it.     *)
(***************************************************************************)
C2_EveryPassAdvances ==
    [][(pc = "loop" /\ pc' = "loop") => st'.json > st.json]_vars

(***************************************************************************)
(* C3.  Nesting is accepted up to and including the depth limit (MAX_NEST  *)
(* when the word size divides it, as 64 and 32 divide 32768); skip_value   *)
(* returns 0 with ENOMEM exactly when it meets an opening bracket with     *)
(* that many levels open, it then leaves the caller's pointer as it was    *)
(* and json_span returns 0; nest[] is never indexed out of bounds.         *)
(***************************************************************************)
C3_DepthLimit ==
    /\ (MAX_NEST % WordBits = 0) => DepthLimit = MAX_NEST
    /\ ~st.bad
    /\ st.level <= DepthLimit
    /\ errno = "ENOMEM" <=>
         /\ pc = "returned"
         /\ st.level = DepthLimit
         /\ rd(Mem, st.json) \in {Ch["["], Ch["{"]}
    /\ (pc = "returned" /\ errno = "ENOMEM") =>
         /\ ret = 0
         /\ jp = WfWhite(text, 1)
    /\ \A d \in 0 .. MaxDepth :
         (pc = "returned" /\ (IsNestedArray(text, d) \/ IsNestedObject(text, d))) =>
            IF d <= DepthLimit
            THEN ret = Len(text) /\ errno = "0"
            ELSE ret = 0 /\ errno = "ENOMEM"

\* json_span has refused the array nested one level deeper than the limit
C3_Witness ==
    /\ pc = "returned"
    /\ IsNestedArray(text, DepthLimit + 1)
    /\ errno = "ENOMEM"
    /\ ret = 0
    /\ st.json = DepthLimit + 1

(***************************************************************************)
(* C4.  json_span returns 0 and sets errno to EINVAL for every text that   *)
(* does not start with a well-formed JSON value (NULL, empty or blank      *)
(* text, a text starting with , : ] or }, any malformed value).            *)
(***************************************************************************)
C4_SpanRejectsMalformed ==
    (pc = "returned" /\ (arg = NULL \/ ~WellFormedStart(text))) =>
        (ret = 0 /\ errno = "EINVAL")

\* json_span a pass at a time, over any nest[], returns what json_span(),
\* taken as a whole over a zeroed nest[], returns
SkipAgrees ==
    pc = "returned" =>
        LET r == json_span(Mem, arg, "0", ZeroNest)
        IN  r.out = "ret" /\ r.n = ret /\ r.errno = errno

\* the well-formed object that a text is
ObjectOf == [t \in {ob.t : ob \in WfObjects} |-> CHOOSE ob \in WfObjects : ob.t = t]

\* DepthLimit + 1 opening brackets in a row stand at p
DeepAt(t, p) ==
    /\ p # NULL
    /\ \A k \in 0 .. DepthLimit : At(t, p + k) \in {Ch["["], Ch["{"]}

(***************************************************************************)
(* C5.  Once json_array_next or json_object_next has returned NULL for an  *)
(* iterator variable, every later call on that variable returns NULL too.  *)
(***************************************************************************)
C5_ExhaustedStays ==
    \A i \in DOMAIN hist : \A j \in DOMAIN hist :
        (i < j /\ hist[i].ret = NULL) => hist[j].ret = NULL

\* an object iterator gave a member, then stopped at the closing bracket,
\* and was stepped once more
C5_Witness ==
    /\ Len(hist) = 3
    /\ hist[1].f = "json_object_next"
    /\ hist[1].ret # NULL
    /\ hist[2].ret = NULL /\ hist[2].it # NULL
    /\ hist[3].ret = NULL

(***************************************************************************)
(* C6.  Over a well-formed object of n members (keys quoted or bare, with  *)
(* or without one extra comma, values within the depth limit) the first n  *)
(* calls of json_object_next return the positions of the members' values   *)
(* in textual order and store the positions of their keys through          *)
(* key_return; every call after them returns NULL.                         *)
(***************************************************************************)
C6_MembersInOrder ==
    (op = "json_object_next" /\ text \in DOMAIN ObjectOf) =>
        \A i \in DOMAIN hist :
            IF i <= Len(ObjectOf[text].vp)
            THEN /\ hist[i].ret = ObjectOf[text].vp[i]
                 /\ hist[i].keyret => hist[i].key = ObjectOf[text].kp[i]
            ELSE hist[i].ret = NULL

\* both members of { "a" : 0 , b : 0 , } were returned, then NULL
C6_Witness ==
    /\ op = "json_object_next"
    /\ text \in DOMAIN ObjectOf
    /\ Len(ObjectOf[text].vp) = 2
    /\ text[ObjectOf[text].kp[2]] = Ch["b"]
    /\ text[Len(text) - 1] \in {Ch[","], Ch[" "]}
    /\ Len(hist) = 3
    /\ hist[1].keyret /\ hist[2].keyret
    /\ hist[3].ret = NULL

(***************************************************************************)
(* C7.  When json_object_next returns NULL the storage designated by       *)
(* key_return is left as it was before the call.                           *)
(***************************************************************************)
C7_KeyKeptAtEnd ==
    \A i \in DOMAIN hist :
        (hist[i].f = "json_object_next" /\ hist[i].ret = NULL) =>
            hist[i].key = hist[i].kbefore

\* json_object_next(&i, &key) returned NULL at a closing bracket
C7_Witness ==
    \E i \in DOMAIN hist :
        /\ hist[i].f = "json_object_next"
        /\ hist[i].ret = NULL
        /\ hist[i].keyret
        /\ hist[i].it # NULL
        /\ hist[i].key = PLACEHOLDER

(***************************************************************************)
(* C8.  When the next member's value, or the next element, is nested       *)
(* beyond the depth limit, json_object_next and json_array_next return     *)
(* NULL with errno ENOMEM.                                                 *)
(***************************************************************************)
C8_DeepValueRefused ==
    \A i \in DOMAIN hist :
        DeepAt(text, hist[i].value) =>
            (hist[i].ret = NULL /\ hist[i].errno = "ENOMEM")

\* the path holds an index component that starts with a minus sign
HasNegativeLiteral(path) ==
    \E i \in DOMAIN path : path[i] = Ch["["] /\ At(path, i + 1) = Ch["-"]

\* the paths "[%d]" and "a[%d]"
SignedIndexPaths ==
    {Text(<<"[", "%", "d", "]">>), Text(<<"a", "[", "%", "d", "]">>)}

(***************************************************************************)
(* C9.  Whatever the JSON input, json_select returns NULL with EINVAL for  *)
(* a path that holds an index component written as a literal negative      *)
(* number ("a[-1]"), and NULL with ENOENT for the component "[%d]" given a *)
(* negative int argument ("a[%d]", -1).                                    *)
(***************************************************************************)
C9_NegativeIndex ==
    (op = "json_select" /\ pc = "returned") =>
        /\ HasNegativeLiteral(query.path) => (ret = NULL /\ errno = "EINVAL")
        /\ (query.path \in SignedIndexPaths /\ query.ap[1].int < 0) =>
              (ret = NULL /\ errno = "ENOENT")

\* the half of C9 about "[%d]"
NegativeArgumentNotFound ==
    (op = "json_select" /\ pc = "returned" /\ query.path \in SignedIndexPaths
       /\ query.ap[1].int < 0) => (ret = NULL /\ errno = "ENOENT")

\* json_select ("{}", "a[-1]") has returned NULL with ENOENT
NegativeLiteralNotFound ==
    /\ op = "json_select" /\ pc = "returned"
    /\ text = Text(<<"{", "}">>) /\ arg # NULL
    /\ query.path = Text(<<"a", "[", "-", "1", "]">>)
    /\ ret = NULL /\ errno = "ENOENT"

(***************************************************************************)
(* C10.  A json_default_select_* wrapper returns the caller's default      *)
(* exactly when the selection inside it failed with ENOENT; when the       *)
(* selection failed for another reason (EINVAL, a malformed path) the      *)
(* default is not returned and errno still tells that failure.             *)
(***************************************************************************)
C10_DefaultOnlyWhenNotFound ==
    (op \in DefaultSelectors /\ pc = "returned") =>
        /\ ret = query.default <=> (query.sel = NULL /\ query.selerrno = "ENOENT")
        /\ (query.sel = NULL /\ query.selerrno # "ENOENT") => errno = query.selerrno

\* json_default_select_object (default, "{}", "[-1]") has returned the
\* default, the path being malformed
DefaultOnMalformed ==
    /\ op = "json_default_select_object" /\ pc = "returned"
    /\ text = Text(<<"{", "}">>) /\ arg # NULL
    /\ query.path = Text(<<"[", "-", "1", "]">>)
    /\ query.selerrno = "EINVAL" /\ errno = "EINVAL"
    /\ ret = query.default

\* the path is a sequence of literal components .key and [digits] from p
\* on; the first key may come without its '.'
RECURSIVE LiteralKeyEnd(_, _)
LiteralKeyEnd(path, p) ==
    IF InBracketDot(At(path, p)) \/ At(path, p) = Ch["%"] THEN p
    ELSE LiteralKeyEnd(path, p + 1)

RECURSIVE DigitsEnd(_, _)
DigitsEnd(path, p) == IF isdigit(At(path, p)) THEN DigitsEnd(path, p + 1) ELSE p

RECURSIVE LiteralFrom(_, _, _)
LiteralFrom(path, p, first) ==
    IF p > Len(path) THEN TRUE
    ELSE IF path[p] = Ch["["]
    THEN /\ DigitsEnd(path, p + 1) > p + 1
         /\ At(path, DigitsEnd(path, p + 1)) = Ch["]"]
         /\ LiteralFrom(path, DigitsEnd(path, p + 1) + 1, FALSE)
    ELSE IF path[p] = Ch["."]
    THEN /\ LiteralKeyEnd(path, p + 1) > p + 1
         /\ At(path, LiteralKeyEnd(path, p + 1)) # Ch["%"]
         /\ LiteralFrom(path, LiteralKeyEnd(path, p + 1), FALSE)
    ELSE /\ first
         /\ path[p] # Ch["%"]
         /\ At(path, LiteralKeyEnd(path, p)) # Ch["%"]
         /\ LiteralFrom(path, LiteralKeyEnd(path, p), FALSE)

WellFormedLiteral(path) == LiteralFrom(path, 1, TRUE)

\* the ways of writing a path as P followed by Q, both well-formed literal
\* paths, Q starting with '.' or '['
Splits(path) ==
    {i \in 0 .. Len(path) - 1 :
        /\ path[i + 1] \in {Ch["."], Ch["["]}
        /\ WellFormedLiteral(SubSeq(path, 1, i))
        /\ WellFormedLiteral(SubSeq(path, i + 1, Len(path)))}

\* json_select (r1's pointer, Q), r1 being what the selection of P returned
SelectAgain(M, r1, path, g) ==
    IF r1.out # "ret" THEN r1
    ELSE json_selectv(M, r1.ret, [path |-> path, ap |-> <<>>], r1.errno, g)

\* json_select (json_select (x, P), Q), P being the first i bytes of path
\* and Q the rest
SelectTwice(M, x, path, i, e, g) ==
    SelectAgain(M, json_selectv(M, x, [path |-> SubSeq(path, 1, i), ap |-> <<>>], e, g),
                SubSeq(path, i + 1, Len(path)), g)

\* how a call that ends in pc ended
Outcome ==
    CASE pc = "returned" -> "ret" [] pc = "hung" -> "hang" [] pc = "aborted" -> "abort"

(***************************************************************************)
(* C11.  Selection composes from left to right: for well-formed literal    *)
(* paths P and Q, Q starting with '.' or '[', json_select (v, P Q) returns *)
(* the pointer, or the NULL, that json_select (json_select (v, P), Q)      *)
(* returns, and returns whenever the two calls in a row do.                *)
(***************************************************************************)
C11_SelectComposes ==
    (op = "json_select" /\ pc # "idle") =>
        \A i \in Splits(query.path) :
            /\ SelectTwice(Mem, arg, query.path, i, "0", garbage).out = Outcome
            /\ SelectTwice(Mem, arg, query.path, i, "0", garbage).ret = ret

\* json_select (x, "a[1]") has selected an element, "a[1]" being "a"
\* followed by "[1]"
C11_Witness ==
    /\ op = "json_select" /\ pc = "returned"
    /\ query.path = Text(<<"a", "[", "1", "]">>)
    /\ Splits(query.path) = {1}
    /\ ret # NULL
    /\ rd(Mem, ret) = Ch["1"]

\* the object or array that starts at x has a stray ':' where its first key
\* or element is expected
StrayColonFirst(M, x) ==
    /\ x # NULL
    /\ rd(M, WhiteEnd(M, x)) \in {Ch["{"], Ch["["]}
    /\ rd(M, WhiteEnd(M, WhiteEnd(M, x) + 1)) = Ch[":"]

(***************************************************************************)
(* C12.  When the object or array searched has a malformed member before   *)
(* the requested one (here a stray ':' in the place of its first member),  *)
(* json_select with a well-formed path returns NULL with EINVAL, even if a *)
(* member that matches comes later in the text.                            *)
(***************************************************************************)
C12_MalformedMemberInvalid ==
    (/\ op = "json_select" /\ pc # "idle"
     /\ query.path # <<>> /\ WellFormedLiteral(query.path)
     /\ StrayColonFirst(Mem, arg)) =>
        (pc = "returned" /\ ret = NULL /\ errno = "EINVAL")

\* json_select ("{:,a:0}", "a") has selected the 0 that follows the stray ':'
MalformedMemberSkipped ==
    /\ op = "json_select" /\ pc = "returned"
    /\ text = Text(<<"{", ":", ",", "a", ":", "0", "}">>)
    /\ query.path = Text(<<"a">>)
    /\ ret = 6 /\ errno = "0"

\* the number of elements of the well-formed array whose first element, or
\* closing bracket, is at p
RECURSIVE ElementsFrom(_, _)
ElementsAfter(t, q) ==
    IF At(t, q) = Ch[","] THEN 1 + ElementsFrom(t, WfWhite(t, q + 1)) ELSE 1

ElementsFrom(t, p) ==
    IF At(t, p) = Ch["]"] THEN 0
    ELSE ElementsAfter(t, WfWhite(t, WfValueEnd(t, p)))

\* the text is a well-formed array
IsWfArray(t) == WellFormedStart(t) /\ At(t, WfWhite(t, 1)) = Ch["["]

ElementCount(t) == ElementsFrom(t, WfWhite(t, WfWhite(t, 1) + 1))

\* the decimal value of the digits from p on, after the value acc
RECURSIVE DecimalValue(_, _, _)
DecimalValue(path, p, acc) ==
    IF isdigit(At(path, p))
    THEN DecimalValue(path, p + 1, acc * 10 + (path[p] - Ch["0"]))
    ELSE acc

\* the path is one literal index component [N]
IsLiteralIndex(path) ==
    /\ Len(path) >= 3
    /\ path[1] = Ch["["]
    /\ DigitsEnd(path, 2) = Len(path)
    /\ path[Len(path)] = Ch["]"]

(***************************************************************************)
(* C13.  For an array of n elements and a literal index [N] whose decimal  *)
(* value is n or more, whatever the digits of N, json_select returns NULL  *)
(* with ENOENT and selects no element.                                     *)
(***************************************************************************)
C13_IndexPastEnd ==
    (/\ op = "json_select" /\ pc # "idle"
     /\ arg = 1 /\ IsWfArray(text)
     /\ IsLiteralIndex(query.path)
     /\ DecimalValue(query.path, 2, 0) >= ElementCount(text)) =>
        (pc = "returned" /\ ret = NULL /\ errno = "ENOENT")

\* json_select ("[0,1]", "[64]"), 64 being twice UINT_MAX + 1, has selected
\* the first element
IndexWrapped ==
    /\ op = "json_select" /\ pc = "returned"
    /\ text = Text(<<"[", "0", ",", "1", "]">>)
    /\ ElementCount(text) = 2
    /\ query.path = Text(<<"[", "6", "4", "]">>)
    /\ ret = 2 /\ errno = "0"

(***************************************************************************)
(* C14.  json_select with the empty path returns the pointer it was given, *)
(* whatever is there (whitespace is not skipped and the value is not       *)
(* looked at), and reports success; for NULL it returns NULL with ENOENT.  *)
(***************************************************************************)
C14_EmptyPath ==
    (op = "json_select" /\ pc # "idle" /\ query.path = <<>>) =>
        /\ pc = "returned"
        /\ ret = arg
        /\ errno = IF arg = NULL THEN "ENOENT" ELSE "0"

\* the empty path has selected a text at its leading space
C14_Witness ==
    /\ op = "json_select" /\ pc = "returned"
    /\ query.path = <<>>
    /\ arg # NULL /\ rd(Mem, arg) = Ch[" "]
    /\ ret = arg /\ errno = "0"

\* the empty path has been selected in NULL, and in a text that is no value
EmptyPathOfNull ==
    op = "json_select" /\ pc = "returned" /\ query.path = <<>> /\ arg = NULL

EmptyPathOfInvalid ==
    /\ op = "json_select" /\ pc = "returned" /\ query.path = <<>>
    /\ text = Text(<<",">>) /\ ret = 1

(***************************************************************************)
(* C15.  In a literal key of a path a doubled '%' stands for one '%': the  *)
(* path ".%%a" selects the member whose key is "%a".                       *)
(***************************************************************************)
C15_DoubledPercent ==
    (/\ op = "json_select" /\ pc # "idle" /\ arg = 1
     /\ query.path = Text(<<".", "%", "%", "a">>)
     /\ text = Text(<<"{", "\"", "%", "a", "\"", ":", "0", "}">>)) =>
        (pc = "returned" /\ ret = 7 /\ errno = "0")

\* the path ".%%a" has found no member in {"%a":0}
DoubledPercentNotFound ==
    /\ op = "json_select" /\ pc = "returned" /\ arg = 1
    /\ query.path = Text(<<".", "%", "%", "a">>)
    /\ text = Text(<<"{", "\"", "%", "a", "\"", ":", "0", "}">>)
    /\ ret = NULL /\ errno = "ENOENT"

\* the path ".%%a" has selected the member of {"%%a":0}, whose key has
\* both '%'
DoubledPercentKept ==
    /\ op = "json_select" /\ pc = "returned" /\ arg = 1
    /\ query.path = Text(<<".", "%", "%", "a">>)
    /\ text = Text(<<"{", "\"", "%", "%", "a", "\"", ":", "0", "}">>)
    /\ ret = 8 /\ errno = "0"

(***************************************************************************)
(* json_as_bool (lib/bool.c) and the errno that a sequence of calls        *)
(* leaves.  strtod is modelled on decimal numbers with an optional         *)
(* exponent and on "inf" and "nan"; what it returns is kept as zero (the   *)
(* value is 0) and nan.                                                    *)
(***************************************************************************)
\* word_strcmp: the do-while loop, k being the index of *str in str
RECURSIVE WordStrFrom(_, _, _, _)
WordStrFrom(M, p, str, k) ==
    IF rd(M, p) # At(str, k) THEN (IF rd(M, p) < At(str, k) THEN -1 ELSE 1)
    ELSE IF is_word_char(rd(M, p + 1)) /\ At(str, k + 1) # Ch["NUL"]
    THEN WordStrFrom(M, p + 1, str, k + 1)
    ELSE IF At(str, k + 1) # Ch["NUL"] THEN -1
    ELSE IF is_word_char(rd(M, p + 1)) THEN 1
    ELSE 0

word_strcmp(M, json, str) ==
    IF json = NULL \/ ~is_word_start(rd(M, json))
    THEN (IF At(str, 1) # Ch["NUL"] THEN -1 ELSE 0)
    ELSE WordStrFrom(M, json, str, 1)

json_false == Text(<<"f", "a", "l", "s", "e">>)

json_true == Text(<<"t", "r", "u", "e">>)

json_null == Text(<<"n", "u", "l", "l">>)

undefined == Text(<<"u", "n", "d", "e", "f", "i", "n", "e", "d">>)

\* strtod: the end of the digits from p on
RECURSIVE StrtodDigits(_, _)
StrtodDigits(M, p) == IF isdigit(rd(M, p)) THEN StrtodDigits(M, p + 1) ELSE p

\* the digits from p up to q are all '0'
AllZero(M, p, q) == \A i \in p .. q - 1 : rd(M, i) \in {Ch["0"], Ch["."]}

\* strtod: the exponent at q, if there is a whole one
StrtodExponent(M, q, d) ==
    IF rd(M, q) \in {Ch["e"], Ch["E"]} /\ StrtodDigits(M, d) > d
    THEN StrtodDigits(M, d) ELSE q

StrtodSigned(M, q) == IF rd(M, q + 1) \in {Ch["+"], Ch["-"]} THEN q + 2 ELSE q + 1

\* strtod: the mantissa from p to q has digits
StrtodMantissa(M, json, p, q) ==
    [end |-> StrtodExponent(M, q, StrtodSigned(M, q)),
     zero |-> AllZero(M, p, q), nan |-> FALSE]

\* strtod: the fraction that may follow the d digits that end at q
StrtodFraction(M, json, p, q) ==
    IF rd(M, q) = Ch["."] /\ (q > p \/ StrtodDigits(M, q + 1) > q + 1)
    THEN StrtodMantissa(M, json, p, StrtodDigits(M, q + 1))
    ELSE IF q > p THEN StrtodMantissa(M, json, p, q)
    ELSE [end |-> json, zero |-> TRUE, nan |-> FALSE]

\* strtod: what follows the sign
StrtodUnsigned(M, json, p) ==
    IF rd(M, p) \in {Ch["n"], Ch["N"]} /\ rd(M, p + 1) = Ch["a"]
       /\ rd(M, p + 2) \in {Ch["n"], Ch["N"]}
    THEN [end |-> p + 3, zero |-> FALSE, nan |-> TRUE]
    ELSE IF rd(M, p) = Ch["i"] /\ rd(M, p + 1) \in {Ch["n"], Ch["N"]}
            /\ rd(M, p + 2) = Ch["f"]
    THEN [end |-> p + 3, zero |-> FALSE, nan |-> FALSE]
    ELSE StrtodFraction(M, json, p, StrtodDigits(M, p))

strtod(M, json) ==
    StrtodUnsigned(M, json, IF rd(M, json) \in {Ch["+"], Ch["-"]} THEN json + 1 ELSE json)

\* json_as_bool from "null and undefined are falsey"
BoolWord(M, json) ==
    IF word_strcmp(M, json, json_null) = 0 THEN 0
    ELSE IF word_strcmp(M, json, undefined) = 0 THEN 0
    ELSE 1

\* "if (end && is_delimiter(*end)) return !(fp == 0 || isnan(fp));"
BoolNumber(M, json, fp) ==
    IF is_delimiter(rd(M, fp.end))
    THEN (IF fp.zero \/ fp.nan THEN 0 ELSE 1)
    ELSE BoolWord(M, json)

\* json_as_bool once errno is EINVAL: the best-effort conversion
BoolBestEffort(M, json) ==
    IF rd(M, json) \in {Ch["["], Ch["{"]} THEN 1
    ELSE IF rd(M, json) \in {Ch["\""], Ch["'"]}
    THEN (IF rd(M, json + 1) # rd(M, json) THEN 1 ELSE 0)
    ELSE IF is_delimiter(rd(M, json)) THEN 0
    ELSE IF rd(M, json) \in {Ch["+"], Ch["-"], Ch["0"], Ch["."], Ch["N"]}
    THEN BoolNumber(M, json, strtod(M, json))
    ELSE BoolWord(M, json)

\* json_as_bool after skip_white
BoolAt(M, json, e) ==
    IF word_strcmp(M, json, json_false) = 0 THEN [ret |-> 0, errno |-> e]
    ELSE IF word_strcmp(M, json, json_true) = 0 THEN [ret |-> 1, errno |-> e]
    ELSE [ret |-> BoolBestEffort(M, json), errno |-> "EINVAL"]

json_as_bool(M, json, e) ==
    IF json = NULL THEN [ret |-> 0, errno |-> "EINVAL"]
    ELSE BoolAt(M, WhiteEnd(M, json), e)

\* the texts converted and selected in
ConvertTexts ==
    {Text(<<"t", "r", "u", "e">>), Text(<<" ", "f", "a", "l", "s", "e">>),
     Text(<<"t", "r", "u">>), Text(<<"t", "r", "u", "e", "e">>),
     Text(<<"n", "u", "l", "l">>), Text(<<"u", "n", "d", "e", "f", "i", "n", "e", "d">>),
     Text(<<"0">>), Text(<<"-", "0", ".", "0">>), Text(<<"0", ".", "1">>),
     Text(<<"+", "1">>), Text(<<"0", "e", "1">>), Text(<<"N", "a", "n">>),
     Text(<<"-", "i", "n", "f">>), Text(<<".">>), Text(<<"1">>),
     Text(<<"\"", "\"">>), Text(<<"'", "a", "'">>), Text(<<>>),
     Text(<<"[", "]">>), Text(<<"{", "a", ":", "0", "}">>)}

\* the call f (x, ...) on the text t has returned r; hist keeps the errno
\* that each call found
Converted(f, t, x, r) ==
    /\ text' = t
    /\ slack' = <<>>
    /\ garbage' = ZeroNest
    /\ arg' = x
    /\ op' = f
    /\ pc' = "returned"
    /\ ret' = r.ret
    /\ errno' = r.errno
    /\ hist' = Append(hist, errno)

\* another call can be made
Callable ==
    /\ pc \in {"idle", "returned"}
    /\ op \in {"none", "json_as_bool", "json_as_object", "json_select"}
    /\ Len(hist) < MaxCalls

\* json_as_bool (x)
AsBool ==
    /\ Callable
    /\ \E t \in ConvertTexts, x \in {NULL, 1} :
           Converted("json_as_bool", t, x, json_as_bool(Memory(t, <<>>), x, errno))
    /\ UNCHANGED <<st, jp, ji, key, query>>

\* json_as_object (x)
AsObjectOnly ==
    /\ Callable
    /\ \E t \in ConvertTexts, x \in {NULL, 1} :
           Converted("json_as_object", t, x, json_as_object(Memory(t, <<>>), x, errno))
    /\ UNCHANGED <<st, jp, ji, key, query>>

\* json_select (x, ""), json_select (x, "a")
SelectOnly ==
    /\ Callable
    /\ \E t \in ConvertTexts, x \in {NULL, 1}, path \in {<<>>, Text(<<"a">>)} :
           Converted("json_select", t, x,
                     json_select(Memory(t, <<>>), x, [path |-> path, ap |-> <<>>],
                                 errno, ZeroNest))
    /\ UNCHANGED <<st, jp, ji, key, query>>

(***************************************************************************)
(* Number conversions (lib/number.c).  The widths are scaled down: an int  *)
(* has IntBits bits, a long LongBits bits, and a double holds DBL_MANT_DIG *)
(* significant bits and magnitudes from 2^-DBL_MAX_EXP up to 2^DBL_MAX_EXP *)
(* (32, 64, 53 and 1024 in an LP64 build).  A double is a record: kind is  *)
(* "nan", "inf" or "num", neg is its sign and n / d its magnitude.         *)
(***************************************************************************)
IntBits == 3

LongBits == 6

DBL_MANT_DIG == 4

DBL_MAX_EXP == 8

INT_MAX == Pow2(IntBits - 1) - 1

INT_MIN == 0 - Pow2(IntBits - 1)

LONG_MAX == Pow2(LongBits - 1) - 1

LONG_MIN == 0 - Pow2(LongBits - 1)

RECURSIVE Pow10(_)
Pow10(n) == IF n = 0 THEN 1 ELSE 10 * Pow10(n - 1)

Min(a, b) == IF a <= b THEN a ELSE b

NAN == [kind |-> "nan", neg |-> FALSE, n |-> 0, d |-> 1]

HUGE_VAL(neg) == [kind |-> "inf", neg |-> neg, n |-> 0, d |-> 1]

Num(neg, n, d) == [kind |-> "num", neg |-> neg, n |-> n, d |-> d]

\* the position of the highest bit of v
RECURSIVE Log2(_)
Log2(v) == IF v < 2 THEN 0 ELSE 1 + Log2(v \div 2)

\* the quotient q of a division by span, with twice its remainder r2,
\* rounded to nearest, a tie to the even quotient
NearestQuotient(q, r2, span) ==
    IF r2 > span \/ (r2 = span /\ q % 2 = 1) THEN q + 1 ELSE q

\* n / d as a multiple of ulp
NearestMultiple(n, d, ulp) ==
    ulp * NearestQuotient(n \div (d * ulp), 2 * (n % (d * ulp)), d * ulp)

\* the double nearest to n / d.  From 2^(DBL_MANT_DIG - 1) on the doubles
\* are whole numbers; a magnitude below it is kept as it is written, which
\* for the few digits of the texts here moves it across no whole number
RoundToDouble(neg, n, d) ==
    IF n < Pow2(DBL_MANT_DIG - 1) * d THEN Num(neg, n, d)
    ELSE Num(neg, NearestMultiple(n, d, Pow2(Log2(n \div d) - DBL_MANT_DIG + 1)), 1)

\* (double) k of a long k
DoubleOfLong(k) == IF k < 0 THEN RoundToDouble(TRUE, 0 - k, 1) ELSE RoundToDouble(FALSE, k, 1)

\* the magnitude n / d, not 0, as strtod returns it: range tells ERANGE
Finite(neg, n, d) ==
    IF n * Pow2(DBL_MAX_EXP) < d THEN [fp |-> Num(neg, 0, 1), range |-> TRUE]
    ELSE IF n \div d >= Pow2(DBL_MAX_EXP) THEN [fp |-> HUGE_VAL(neg), range |-> TRUE]
    ELSE [fp |-> RoundToDouble(neg, n, d), range |-> FALSE]

\* the digits n times ten to the e10; an exponent beyond +3 or -9 gives
\* what these give, digits of at most five places being out of range with
\* either
Scaled(neg, n, e10) ==
    IF n = 0 THEN [fp |-> Num(neg, 0, 1), range |-> FALSE]
    ELSE IF e10 >= 0 THEN Finite(neg, n * Pow10(Min(e10, 3)), 1)
    ELSE Finite(neg, n, Pow10(Min(0 - e10, 9)))

\* the number that the digits from p up to q spell, a '.' among them left out
RECURSIVE DigitsValue(_, _, _, _)
DigitsValue(M, p, q, acc) ==
    IF p >= q THEN acc
    ELSE IF rd(M, p) = Ch["."] THEN DigitsValue(M, p + 1, q, acc)
    ELSE DigitsValue(M, p + 1, q, acc * 10 + (rd(M, p) - Ch["0"]))

\* the exponent written from mq, the end of the mantissa, up to end
StrtodExp(M, mq, end) ==
    IF end = mq THEN 0
    ELSE IF rd(M, mq + 1) = Ch["-"] THEN 0 - DigitsValue(M, mq + 2, end, 0)
    ELSE IF rd(M, mq + 1) = Ch["+"] THEN DigitsValue(M, mq + 2, end, 0)
    ELSE DigitsValue(M, mq + 1, end, 0)

\* the end of the mantissa whose first digits go from p up to q
MantissaEnd(M, p, q) ==
    IF rd(M, q) = Ch["."] /\ (q > p \/ StrtodDigits(M, q + 1) > q + 1)
    THEN StrtodDigits(M, q + 1) ELSE q

\* the digits after the '.' of the mantissa that ends at mq
FractionDigits(q, mq) == IF mq > q THEN mq - q - 1 ELSE 0

StrtodNumber(M, neg, p, q, mq, end) ==
    Scaled(neg, DigitsValue(M, p, mq, 0),
           StrtodExp(M, mq, end) - FractionDigits(q, mq))

\* strtod with its value: r is what strtod found and p the byte after the
\* sign
StrtodValue(M, json, p, r) ==
    IF r.end = json THEN [end |-> json, fp |-> Num(FALSE, 0, 1), range |-> FALSE]
    ELSE IF r.nan THEN [end |-> r.end, fp |-> NAN, range |-> FALSE]
    ELSE IF rd(M, p) = Ch["i"]
    THEN [end |-> r.end, fp |-> HUGE_VAL(rd(M, json) = Ch["-"]), range |-> FALSE]
    ELSE [end |-> r.end,
          fp |-> StrtodNumber(M, rd(M, json) = Ch["-"], p, StrtodDigits(M, p),
                              MantissaEnd(M, p, StrtodDigits(M, p)), r.end).fp,
          range |-> StrtodNumber(M, rd(M, json) = Ch["-"], p, StrtodDigits(M, p),
                                 MantissaEnd(M, p, StrtodDigits(M, p)), r.end).range]

const_strtod(M, json) ==
    StrtodValue(M, json,
                IF rd(M, json) \in {Ch["+"], Ch["-"]} THEN json + 1 ELSE json,
                strtod(M, json))

\* scan_strict_number: "if (!is_delimiter(*p)) return NULL; return p;"
ScanEnd(M, p) == IF ~is_delimiter(rd(M, p)) THEN NULL ELSE p

\* the digits of the exponent
ScanExpDigits(M, p) ==
    IF ~isdigit(rd(M, p)) THEN NULL ELSE ScanEnd(M, StrtodDigits(M, p))

ScanExp(M, p) ==
    IF rd(M, p) \in {Ch["e"], Ch["E"]}
    THEN ScanExpDigits(M, IF rd(M, p + 1) \in {Ch["-"], Ch["+"]} THEN p + 2 ELSE p + 1)
    ELSE ScanEnd(M, p)

ScanFraction(M, p) ==
    IF rd(M, p) # Ch["."] THEN ScanExp(M, p)
    ELSE IF ~isdigit(rd(M, p + 1)) THEN NULL
    ELSE ScanExp(M, StrtodDigits(M, p + 1))

\* what follows the sign
ScanUnsigned(M, p) ==
    IF rd(M, p) = Ch["0"] THEN ScanFraction(M, p + 1)
    ELSE IF ~isdigit(rd(M, p)) THEN NULL
    ELSE ScanFraction(M, StrtodDigits(M, p))

scan_strict_number(M, p) ==
    ScanUnsigned(M, IF rd(M, p) = Ch["-"] THEN p + 1 ELSE p)

\* json_as_double of a quoted number; p is the byte after the quote
AsDoubleQuoted(M, quote, p, r) ==
    [fp |-> IF r.end = p \/ rd(M, WhiteEnd(M, r.end)) # quote THEN NAN ELSE r.fp,
     errno |-> "EINVAL"]

AsDoubleBare(M, p, r, e) ==
    [fp |-> IF r.end = p THEN NAN ELSE r.fp,
     errno |-> IF scan_strict_number(M, p) = NULL THEN "EINVAL"
               ELSE IF r.range THEN "ERANGE" ELSE e]

\* json_as_double after skip_white
AsDoubleAt(M, p, e) ==
    IF rd(M, p) \in {Ch["\""], Ch["'"]}
    THEN AsDoubleQuoted(M, rd(M, p), p + 1, const_strtod(M, p + 1))
    ELSE AsDoubleBare(M, p, const_strtod(M, p), e)

json_as_double(M, json, e) ==
    IF json = NULL THEN [fp |-> NAN, errno |-> "EINVAL"]
    ELSE AsDoubleAt(M, WhiteEnd(M, json), e)

\* strtol (json, &end, 0): the end of the digits of the base
RECURSIVE StrtolDigits(_, _, _)
StrtolDigits(M, p, base) ==
    IF isdigit(rd(M, p)) /\ rd(M, p) - Ch["0"] < base
    THEN StrtolDigits(M, p + 1, base) ELSE p

\* the number that the digits from p up to q spell in the base, which stays
\* at LONG_MAX + 2 once it is beyond every long
RECURSIVE StrtolValue(_, _, _, _, _)
StrtolValue(M, p, q, base, acc) ==
    IF p >= q THEN acc
    ELSE StrtolValue(M, p + 1, q, base,
                     Min(acc * base + (rd(M, p) - Ch["0"]), LONG_MAX + 2))

\* strtol clamps the magnitude v; range tells ERANGE
StrtolResult(neg, end, v) ==
    IF neg /\ v > LONG_MAX + 1
    THEN [end |-> end, number |-> LONG_MIN, range |-> TRUE]
    ELSE IF ~neg /\ v > LONG_MAX
    THEN [end |-> end, number |-> LONG_MAX, range |-> TRUE]
    ELSE [end |-> end, number |-> IF neg THEN 0 - v ELSE v, range |-> FALSE]

\* base 0: a leading 0 makes the digits octal (no text here holds the x of
\* a hexadecimal number); p is the byte after the sign
StrtolBase(M, p) == IF rd(M, p) = Ch["0"] THEN 8 ELSE 10

StrtolUnsigned(M, json, neg, p) ==
    IF ~isdigit(rd(M, p)) THEN [end |-> json, number |-> 0, range |-> FALSE]
    ELSE StrtolResult(neg, StrtolDigits(M, p, StrtolBase(M, p)),
                      StrtolValue(M, p, StrtolDigits(M, p, StrtolBase(M, p)),
                                  StrtolBase(M, p), 0))

strtol(M, json) ==
    StrtolUnsigned(M, json, rd(M, json) = Ch["-"],
                   IF rd(M, json) \in {Ch["+"], Ch["-"]} THEN json + 1 ELSE json)

\* fp < k and fp > k for a double k that is a whole number
FpLess(fp, k) ==
    \/ fp.kind = "inf" /\ fp.neg
    \/ fp.kind = "num" /\ fp.neg /\ k.neg /\ fp.n > k.n * fp.d

FpGreater(fp, k) ==
    \/ fp.kind = "inf" /\ ~fp.neg
    \/ fp.kind = "num" /\ ~fp.neg /\ ~k.neg /\ fp.n > k.n * fp.d

\* the whole number that fp is truncated to
Truncated(fp) == IF fp.neg THEN 0 - (fp.n \div fp.d) ELSE fp.n \div fp.d

\* "return fp": the conversion to long is undefined when the truncated
\* value is no long, which ub tells
AsLongTruncated(save_errno, r) ==
    [ret |-> Truncated(r.fp),
     errno |-> IF r.fp.n = 0 /\ r.errno = "ERANGE" THEN save_errno ELSE r.errno,
     ub |-> Truncated(r.fp) > LONG_MAX \/ Truncated(r.fp) < LONG_MIN]

\* json_as_long from "fp = json_as_double(json)" on; r is what
\* json_as_double returned after errno = 0
AsLongDouble(save_errno, r) ==
    IF r.fp.kind = "nan"
    THEN [ret |-> 0, errno |-> IF r.errno = "0" THEN "ERANGE" ELSE r.errno,
          ub |-> FALSE]
    ELSE IF FpLess(r.fp, DoubleOfLong(LONG_MIN))
    THEN [ret |-> LONG_MIN, errno |-> "ERANGE", ub |-> FALSE]
    ELSE IF FpGreater(r.fp, DoubleOfLong(LONG_MAX))
    THEN [ret |-> LONG_MAX, errno |-> "ERANGE", ub |-> FALSE]
    ELSE AsLongTruncated(save_errno, r)

\* json_as_long after skip_white; r is what strtol returned
AsLongAt(M, p, save_errno, r) ==
    IF r.end # p /\ is_delimiter(rd(M, r.end))
    THEN [ret |-> r.number,
          errno |-> IF scan_strict_number(M, p) = NULL THEN "EINVAL"
                    ELSE IF r.range THEN "ERANGE" ELSE save_errno,
          ub |-> FALSE]
    ELSE AsLongDouble(save_errno, json_as_double(M, p, "0"))

json_as_long(M, json, e) ==
    IF json = NULL THEN [ret |-> 0, errno |-> "EINVAL", ub |-> FALSE]
    ELSE AsLongAt(M, WhiteEnd(M, json), e, strtol(M, WhiteEnd(M, json)))

\* the values that a build can give the long r: a conversion that is
\* undefined gives LONG_MIN (cvttsd2si of x86-64) or LONG_MAX (fcvtzs of
\* AArch64)
LongOutcomes(r) == IF r.ub THEN {LONG_MIN, LONG_MAX} ELSE {r.ret}

\* json_as_int: number is what json_as_long returned and e the errno it
\* left
AsIntOf(number, e) ==
    IF number > INT_MAX THEN [ret |-> INT_MAX, errno |-> "ERANGE"]
    ELSE IF number < INT_MIN THEN [ret |-> INT_MIN, errno |-> "ERANGE"]
    ELSE [ret |-> number, errno |-> e]

\* the texts converted to numbers
NumberTexts ==
    {Text(<<"3">>), Text(<<"4">>), Text(<<"-", "4">>), Text(<<"-", "5">>),
     Text(<<"3", ".", "5">>), Text(<<"-", "4", ".", "5">>), Text(<<"3", ".", "0">>),
     Text(<<"4", ".", "0">>), Text(<<"2", ".", "9">>), Text(<<" ", "2">>),
     Text(<<"3", "1">>), Text(<<"3", "2">>), Text(<<"-", "3", "2">>),
     Text(<<"-", "3", "3">>), Text(<<"3", "0", ".", "0">>), Text(<<"3", "1", ".", "0">>),
     Text(<<"3", "2", ".", "0">>), Text(<<"-", "3", "2", ".", "0">>),
     Text(<<"-", "3", "3", ".", "0">>), Text(<<"4", "e", "0">>), Text(<<"1", "e", "1">>),
     Text(<<"1", "e", "9">>), Text(<<"-", "1", "e", "9">>), Text(<<"1", "e", "-", "9">>),
     Text(<<"5", "e", "-", "1">>), Text(<<"N", "a", "N">>), Text(<<"i", "n", "f">>),
     Text(<<"\"", "4", "\"">>), Text(<<"\"", "a", "\"">>), Text(<<"'", "1", "e", "1", "'">>),
     Text(<<>>), Text(<<"t", "r", "u", "e">>), Text(<<"[", "4", "]">>),
     Text(<<"0", "1", "0">>), Text(<<"0", "4">>), Text(<<"+", "4">>), Text(<<"0">>),
     Text(<<"-", "0", ".", "0">>), Text(<<"1", "e">>), Text(<<"4", "a">>),
     Text(<<"8", ",">>), Text(<<".", "5">>)}

\* json_as_long (x), or json_as_int (x), has returned
NumberConverted(f, t, x) ==
    /\ text' = t
    /\ arg' = x
    /\ op' = f
    /\ pc' = "converted"
    /\ slack' = <<>>
    /\ garbage' = ZeroNest

\* json_as_long (x)
JsonAsLong ==
    /\ pc = "idle"
    /\ \E t \in NumberTexts, x \in {NULL, 1} :
         /\ NumberConverted("json_as_long", t, x)
         /\ ret' \in LongOutcomes(json_as_long(Memory(t, <<>>), x, errno))
         /\ errno' = json_as_long(Memory(t, <<>>), x, errno).errno
    /\ UNCHANGED <<st, jp, ji, key, hist, query>>

\* json_as_int (x)
JsonAsInt ==
    /\ pc = "idle"
    /\ \E t \in NumberTexts, x \in {NULL, 1} :
         /\ NumberConverted("json_as_int", t, x)
         /\ \E number \in LongOutcomes(json_as_long(Memory(t, <<>>), x, errno)) :
              /\ ret' = AsIntOf(number, json_as_long(Memory(t, <<>>), x, errno).errno).ret
              /\ errno' = AsIntOf(number, json_as_long(Memory(t, <<>>), x, errno).errno).errno
    /\ UNCHANGED <<st, jp, ji, key, hist, query>>

\* json_strcmp (json, cstr) is json_strcmpn (json, cstr, strlen (cstr))
json_strcmp(M, json, cstr, e) == json_strcmpn(M, json, cstr, e)

\* the texts compared: those converted, strings that do not end, and text
\* that starts with a delimiter
CmpTexts ==
    ConvertTexts
    \cup {Text(<<"\"", "a">>), Text(<<"'", "b">>), Text(<<" ", "\"">>),
          Text(<<"\"", "a", "'">>), Text(<<",">>), Text(<<":", "a">>),
          Text(<<"\"", "a", "\"">>), Text(<<"a">>), Text(<<"[", "\"", "a", "\"", "]">>)}

\* the C strings compared with them, none holding a NUL
MaxCstrLen == 2

CStrs == TextsOver({Ch["a"], Ch["b"]}, MaxCstrLen)

\* json_strcmp (x, cstr); query holds cstr
JsonStrcmp ==
    /\ pc = "idle"
    /\ \E t \in CmpTexts, x \in {NULL, 1}, cstr \in CStrs :
         /\ text' = t
         /\ arg' = x
         /\ query' = [cstr |-> cstr]
         /\ ret' = json_strcmp(Memory(t, <<>>), x, cstr, errno).r
         /\ errno' = json_strcmp(Memory(t, <<>>), x, cstr, errno).errno
    /\ op' = "json_strcmp"
    /\ pc' = "compared"
    /\ slack' = <<>>
    /\ garbage' = ZeroNest
    /\ UNCHANGED <<st, jp, ji, key, hist>>

NextConvert == AsBool \/ AsObjectOnly \/ SelectOnly \/ JsonStrcmp \/ JsonAsLong \/ JsonAsInt

SpecConvert == Init /\ [][NextConvert]_vars

\* the value at x is the literal true or the literal false
IsBoolean(M, x) ==
    /\ x # NULL
    /\ \/ /\ \A i \in 1 .. 4 : rd(M, WhiteEnd(M, x) + i - 1) = json_true[i]
          /\ is_delimiter(rd(M, WhiteEnd(M, x) + 4))
       \/ /\ \A i \in 1 .. 5 : rd(M, WhiteEnd(M, x) + i - 1) = json_false[i]
          /\ is_delimiter(rd(M, WhiteEnd(M, x) + 5))

\* the last call was successful: a boolean was converted, an object was
\* opened, a value was selected
Succeeded ==
    /\ pc = "returned"
    /\ \/ op = "json_as_bool" /\ IsBoolean(Mem, arg)
       \/ op \in {"json_as_object", "json_select"} /\ ret # NULL

(***************************************************************************)
(* C16.  Every public operation writes errno on every call, a successful   *)
(* call included: after a successful call errno shows no failure, whatever *)
(* the calls before have left in it.                                       *)
(***************************************************************************)
C16_ErrnoOverwritten == Succeeded => errno = "0"

\* json_as_bool ("true") has returned 1 after a call that failed, and errno
\* is still the EINVAL of that call
StaleErrno ==
    /\ op = "json_as_bool" /\ Succeeded
    /\ text = json_true /\ ret = 1
    /\ hist[Len(hist)] = "EINVAL"
    /\ errno = "EINVAL"

\* a lemma: a successful json_select does clear errno (select.c:101-104)
SelectClearsErrno == (op = "json_select" /\ Succeeded) => errno = "0"

SelectCleared ==
    op = "json_select" /\ Succeeded /\ hist[Len(hist)] = "EINVAL" /\ errno = "0"

\* the deepest nesting of the brackets of a well-formed text from p on, open
\* of them being open and deepest the most seen so far
RECURSIVE OpenFrom(_, _, _, _)
OpenFrom(t, p, open, deepest) ==
    IF p > Len(t) \/ p = 0 THEN deepest
    ELSE IF t[p] \in {Ch["\""], Ch["'"]}
    THEN OpenFrom(t, WfStringEnd(t, p + 1, t[p]), open, deepest)
    ELSE IF t[p] \in {Ch["["], Ch["{"]}
    THEN OpenFrom(t, p + 1, open + 1, Max(deepest, open + 1))
    ELSE IF t[p] \in {Ch["]"], Ch["}"]}
    THEN OpenFrom(t, p + 1, open - 1, deepest)
    ELSE OpenFrom(t, p + 1, open, deepest)

\* the position just after the value that the text starts with
ValueEnd(t) == WfValueEnd(t, WfWhite(t, 1))

\* json_span was called on a well-formed value that is nested no deeper
\* than the limit, and has returned
SpannedValue ==
    /\ op = "json_span" /\ pc = "returned" /\ arg = 1
    /\ WellFormedStart(text)
    /\ OpenFrom(text, 1, 0, 0) <= DepthLimit

(***************************************************************************)
(* C17.  json_span counts the leading whitespace and the bytes of the      *)
(* first value and none of the whitespace after it: the result is the      *)
(* offset just after the last byte of the value.                           *)
(***************************************************************************)
C17_SpanStopsAtValueEnd == SpannedValue => arg + ret = ValueEnd(text)

\* json_span ("a ") has returned 2, the length of a and of the space after it
TrailingWhiteCounted ==
    /\ SpannedValue
    /\ text = Text(<<"a", " ">>)
    /\ ValueEnd(text) = 2
    /\ ret = 2

\* the characters that end a value
Delimiters == {Ch[","], Ch[":"], Ch["]"], Ch["}"], Ch["NUL"]}

\* the position of what follows the value and the whitespace after it
FollowerOf(t) == WfWhite(t, ValueEnd(t))

SpannedNested ==
    /\ SpannedValue
    /\ IsNestedArray(text, DepthLimit)
    /\ arg + ret = Len(text) + 1

(***************************************************************************)
(* Strings to and from JSON (lib/strfrom.c, lib/stras.c, utf8.c).  A C     *)
(* string or a buffer is the sequence of its bytes.  The encoders give the *)
(* bytes they would store in a buffer that has room for them; the output   *)
(* buffers of the model are absent (size 0, a request for the size) or     *)
(* have room for every output.                                             *)
(***************************************************************************)
\* bytes of a source string, and of the content of a JSON string
MaxSrcLen == 4

MaxStrLen == 3

\* HEX[d]
HexDigit(d) == IF d < 10 THEN 48 + d ELSE 87 + d

put_uescape(u) ==
    <<Ch["\\"], Ch["u"], HexDigit((u \div 4096) % 16), HexDigit((u \div 256) % 16),
      HexDigit((u \div 16) % 16), HexDigit(u % 16)>>

\* u is below 0x200000, the most that get_utf8_raw and the escapes decode
put_utf8_raw(u) ==
    IF u < 128 THEN <<u>>
    ELSE IF u < 2048 THEN <<192 + ((u \div 64) % 32), 128 + (u % 64)>>
    ELSE IF u < 65536
    THEN <<224 + ((u \div 4096) % 16), 128 + ((u \div 64) % 64), 128 + (u % 64)>>
    ELSE <<240 + ((u \div 262144) % 8), 128 + ((u \div 4096) % 64),
           128 + ((u \div 64) % 64), 128 + (u % 64)>>

put_sanitized_utf8(u) == IF IS_DCxx(u) THEN <<u % 256>> ELSE put_utf8_raw(u)

\* the letters of the two-byte escapes
StrEscapes ==
    8 :> Ch["b"] @@ 9 :> Ch["t"] @@ 10 :> Ch["n"] @@ 12 :> Ch["f"]
    @@ 13 :> Ch["r"] @@ 92 :> Ch["\\"] @@ 34 :> Ch["\""]

put_sanitized_str_escaped(u) ==
    IF u \in DOMAIN StrEscapes THEN <<Ch["\\"], StrEscapes[u]>>
    ELSE IF u >= 32 THEN put_sanitized_utf8(u)
    ELSE put_uescape(u)

\* what string_from_strn puts out for the code point u that follows the
\* code points lookbehind[0] and lookbehind[1]
PutGuarded(u, lookbehind) ==
    IF u = Ch["/"] /\ lookbehind[2] = 60 THEN <<Ch["\\"], Ch["/"]>>
    ELSE IF u = 62 /\ lookbehind[2] = Ch["]"] /\ lookbehind[1] = Ch["]"]
    THEN put_uescape(u)
    ELSE put_sanitized_str_escaped(u)

\* what string_from_strn returns once all of out is put out
StringFromEnd(out, dstsz, e) ==
    IF dstsz # 0 /\ Len(out) > dstsz
    THEN [ret |-> 0, errno |-> "ENOMEM", dst |-> <<Ch["NUL"]>>]
    ELSE [ret |-> Len(out), errno |-> e, dst |-> IF dstsz = 0 THEN <<>> ELSE out]

StringFromFail(dst) == [ret |-> 0, errno |-> "EINVAL", dst |-> dst]

\* the loop "while (src < src_end)" of string_from_strn, i being the index
\* of src in the source; r is what get_utf8_raw_bounded returned
RECURSIVE StringFromLoop(_, _, _, _, _, _, _)
StringFromChar(src, i, out, lookbehind, dstsz, safe, e, r) ==
    IF r.n = 0 \/ (safe /\ ~IS_UTF8_SAFE(r.u))
    THEN StringFromFail(IF dstsz = 0 THEN <<>> ELSE out)
    ELSE StringFromLoop(src, i + r.n, out \o PutGuarded(r.u, lookbehind),
                        <<lookbehind[2], r.u>>, dstsz, safe, e)

StringFromLoop(src, i, out, lookbehind, dstsz, safe, e) ==
    IF i > Len(src)
    THEN StringFromEnd(out \o <<Ch["\""], Ch["NUL"]>>, dstsz, e)
    ELSE StringFromChar(src, i, out, lookbehind, dstsz, safe, e,
                        get_utf8_raw_bounded(src, i))

string_from_strn(src, dstsz, safe, e) ==
    StringFromLoop(src, 1, <<Ch["\""]>>, <<0, 0>>, dstsz, safe, e)

\* strlen
RECURSIVE strlen(_, _)
strlen(s, n) == IF n < Len(s) /\ s[n + 1] # Ch["NUL"] THEN strlen(s, n + 1) ELSE n

\* the four public forms; the _str forms are given a non-NULL src here
StringFromForms ==
    {"json_string_from_str", "json_string_from_strn",
     "json_string_from_unsafe_str", "json_string_from_unsafe_strn"}

IsSafeForm(f) == f \in {"json_string_from_str", "json_string_from_strn"}

json_string_from(f, src, dstsz, e) ==
    IF f \in {"json_string_from_str", "json_string_from_unsafe_str"}
    THEN string_from_strn(SubSeq(src, 1, strlen(src, 0)), dstsz, IsSafeForm(f), e)
    ELSE string_from_strn(src, dstsz, IsSafeForm(f), e)

\* as_str: what it returns once the n bytes of out are put out
AsStrEnd(out, bufsz, e) ==
    IF bufsz # 0 /\ Len(out) > bufsz
    THEN [ret |-> 0, errno |-> "ENOMEM", buf |-> <<Ch["NUL"]>>]
    ELSE [ret |-> Len(out), errno |-> e, buf |-> IF bufsz = 0 THEN <<>> ELSE out]

\* invalid: of as_str
AsStrInvalid(bufsz) ==
    [ret |-> 0, errno |-> "EINVAL", buf |-> IF bufsz = 0 THEN <<>> ELSE <<Ch["NUL"]>>]

\* the loop of as_str; d is the code point decoded and the pointer after it
RECURSIVE AsStrLoop(_, _, _, _, _, _, _)
AsStrChar(M, quote, out, bufsz, safe, e, d) ==
    IF safe /\ ~IS_UTF8_SAFE(d.u) THEN AsStrInvalid(bufsz)
    ELSE AsStrLoop(M, d.json, quote, out \o put_utf8_raw(d.u), bufsz, safe, e)

AsStrLoop(M, p, quote, out, bufsz, safe, e) ==
    IF rd(M, p) # Ch["NUL"]
       /\ (IF quote # 0 THEN rd(M, p) # quote ELSE is_word_char(rd(M, p)))
    THEN AsStrChar(M, quote, out, bufsz, safe, e,
                   IF quote # 0 THEN get_escaped_sanitized(M, p)
                   ELSE get_utf8_sanitized(M, p))
    ELSE IF quote # 0 /\ rd(M, p) # quote THEN AsStrInvalid(bufsz)
    ELSE AsStrEnd(out \o <<Ch["NUL"]>>, bufsz, e)

\* as_str after skip_white
AsStrAt(M, p, bufsz, safe, e) ==
    IF rd(M, p) \in {Ch["\""], Ch["'"]}
    THEN AsStrLoop(M, p + 1, rd(M, p), <<>>, bufsz, safe, e)
    ELSE IF is_word_start(rd(M, p)) THEN AsStrLoop(M, p, 0, <<>>, bufsz, safe, e)
    ELSE AsStrInvalid(bufsz)

as_str(M, json, bufsz, safe, e) ==
    IF json = NULL THEN AsStrInvalid(bufsz)
    ELSE AsStrAt(M, WhiteEnd(M, json), bufsz, safe, e)

json_as_unsafe_str(M, json, bufsz, e) == as_str(M, json, bufsz, FALSE, e)

json_as_str(M, json, bufsz, e) == as_str(M, json, bufsz, TRUE, e)

(***************************************************************************)
(* String conversions, a call at a time.  query holds the source src of    *)
(* the last json_string_from_* call, the size dstsz of its buffer and what *)
(* is in the buffer after the call, dst; and what json_as_*str left in its *)
(* buffer, buf.                                                            *)
(***************************************************************************)
\* room for any output of the model
BufSize == 6 * (MaxSrcLen + MaxStrLen) + 3

\* the bytes of the sources: < / ] > a, and ED B0 BC, the UTF-8 form of
\* U+DC3C
SrcAlphabet == {60, Ch["/"], Ch["]"], 62, Ch["a"], 237, 176, 188}

Sources == TextsOver(SrcAlphabet, MaxSrcLen)

\* the bytes of the contents of the JSON strings decoded: < / \ a n, the
\* control character ^A and C0, which is no UTF-8
StrAlphabet == {60, Ch["/"], Ch["\\"], Ch["a"], Ch["n"], Ch["^A"], 192}

Contents == TextsOver(StrAlphabet, MaxStrLen)

Quoted(B) == <<Ch["\""]>> \o B \o <<Ch["\""]>>

\* json_string_from_* (src, dst, dstsz) has returned r
Encoded(f, src, dstsz, r) ==
    /\ op' = f
    /\ pc' = "encoded"
    /\ ret' = r.ret
    /\ errno' = r.errno
    /\ query' = [src |-> src, dstsz |-> dstsz, dst |-> r.dst,
                 buf |-> IF pc = "idle" THEN <<>> ELSE query.buf,
                 from |-> IF pc = "idle" THEN "none" ELSE op]
    /\ UNCHANGED <<slack, garbage, arg, st, jp, ji, key, hist>>

\* a source string is made into a JSON string
StringFrom ==
    /\ pc = "idle"
    /\ \E f \in StringFromForms, src \in Sources, dstsz \in {0, BufSize} :
         Encoded(f, src, dstsz, json_string_from(f, src, dstsz, errno))
    /\ UNCHANGED text

\* json_as_str or json_as_unsafe_str (x, buf, BufSize) has returned r
StrDecoded(f, t, r) ==
    /\ text' = t
    /\ op' = f
    /\ ret' = r.ret
    /\ errno' = r.errno
    /\ query' = [src |-> <<>>, dstsz |-> 0, dst |-> <<>>, buf |-> r.buf,
                 from |-> "none"]

\* a quoted string is decoded
AsStr ==
    /\ pc = "idle"
    /\ \E B \in Contents :
         \/ StrDecoded("json_as_str", Quoted(B),
                       json_as_str(Memory(Quoted(B), <<>>), 1, BufSize, errno))
         \/ StrDecoded("json_as_unsafe_str", Quoted(B),
                       json_as_unsafe_str(Memory(Quoted(B), <<>>), 1, BufSize, errno))
    /\ arg' = 1
    /\ slack' = <<>>
    /\ garbage' = ZeroNest
    /\ pc' = "decoded"
    /\ UNCHANGED <<st, jp, ji, key, hist>>

\* the string that json_as_*str has stored is made into a JSON string again
StringFromBuf ==
    /\ pc = "decoded"
    /\ ret # 0
    /\ \E f \in {"json_string_from_str", "json_string_from_unsafe_str"} :
         Encoded(f, query.buf, BufSize, json_string_from(f, query.buf, BufSize, errno))
    /\ UNCHANGED text

(***************************************************************************)
(* String conversions into a buffer of any size, of texts that hold a      *)
(* string, a word or neither.  query.dstsz holds the size of the buffer    *)
(* and query.buf the C string that the call left in it.                    *)
(***************************************************************************)
\* further texts: words, structures, nothing, strings that do not end,
\* bytes that are no UTF-8, and \u escapes of a letter and of surrogates
ValueTexts ==
    {Text(<<"1">>), Text(<<" ", "-", "1", ".", "0">>), Text(<<"t", "r", "u", "e">>),
     Text(<<"n", "u", "l", "l">>), Text(<<"[", "0", "]">>),
     Text(<<"{", "a", ":", "0", "}">>), Text(<<>>), Text(<<" ">>),
     Text(<<":">>), Text(<<"\"", "a">>), Text(<<"'", "a", "\"">>),
     <<Ch["a"], 192>>, <<Ch["'"], 195, 169, Ch["'"]>>,
     Text(<<"\"", "\\", "u", "0", "0", "4", "1", "\"">>),
     Text(<<"\"", "\\", "u", "d", "9", "0", "0", "\"">>),
     Text(<<"\"", "\\", "u", "d", "d", "0", "0", "\"">>)}

StrTexts == ValueTexts \cup {Quoted(B) : B \in Contents}

\* the sizes of the buffer: none, too small for most strings, and ample
MaxBufSz == 3

BufSizes == 0 .. MaxBufSz \cup {BufSize}

\* json_as_str or json_as_unsafe_str (t, buf, bufsz) has returned r
StrStored(f, t, bufsz, r) ==
    /\ text' = t
    /\ op' = f
    /\ ret' = r.ret
    /\ errno' = r.errno
    /\ query' = [src |-> <<>>, dstsz |-> bufsz, dst |-> <<>>, buf |-> r.buf,
                 from |-> "none"]

\* a text is decoded into a buffer of some size
AsStrSized ==
    /\ pc = "idle"
    /\ \E t \in StrTexts, bufsz \in BufSizes :
         \/ StrStored("json_as_str", t, bufsz,
                      json_as_str(Memory(t, <<>>), 1, bufsz, errno))
         \/ StrStored("json_as_unsafe_str", t, bufsz,
                      json_as_unsafe_str(Memory(t, <<>>), 1, bufsz, errno))
    /\ arg' = 1
    /\ slack' = <<>>
    /\ garbage' = ZeroNest
    /\ pc' = "stored"
    /\ UNCHANGED <<st, jp, ji, key, hist>>

NextString == StringFrom \/ AsStr \/ StringFromBuf \/ AsStrSized

SpecString == Init /\ [][NextString]_vars

\* the bytes of w stand in s from i on
OccursAt(s, w, i) == \A k \in 1 .. Len(w) : At(s, i + k - 1) = w[k]

Contains(s, w) == \E i \in 1 .. Len(s) : OccursAt(s, w, i)

\* a json_string_from_* call has generated a JSON string
Generated == pc = "encoded" /\ ret # 0 /\ query.dstsz # 0

(***************************************************************************)
(* C19.  For every source that json_string_from_str,                       *)
(* json_string_from_unsafe_str or their _strn forms accept, the JSON       *)
(* string generated holds neither the bytes "</" nor the bytes "]]>".      *)
(***************************************************************************)
C19_NoMarkupSequences ==
    Generated =>
        /\ ~Contains(query.dst, <<60, Ch["/"]>>)
        /\ ~Contains(query.dst, <<Ch["]"], Ch["]"], 62>>)

\* json_string_from_unsafe_strn has made "</" of the source U+DC3C '/'
SanitizedBracketPassed ==
    /\ Generated
    /\ op = "json_string_from_unsafe_strn"
    /\ query.src = <<237, 176, 188, Ch["/"]>>
    /\ query.dst = <<Ch["\""], 60, Ch["/"], Ch["\""], Ch["NUL"]>>

\* a lemma: the safe forms do keep both sequences out
SafeFormsGuarded == (Generated /\ IsSafeForm(op)) => C19_NoMarkupSequences

SafeGuarded ==
    /\ Generated /\ IsSafeForm(op)
    /\ query.src = <<60, Ch["/"]>>
    /\ query.dst = <<Ch["\""], 60, Ch["\\"], Ch["/"], Ch["\""], Ch["NUL"]>>

(***************************************************************************)
(* C20.  For any bytes B, invalid UTF-8 included, decoding the quoted JSON *)
(* string made of B with json_as_unsafe_str and encoding the result with   *)
(* json_string_from_unsafe_str gives a JSON string whose content is B.     *)
(***************************************************************************)
C20_UnsafeRoundTrip ==
    (/\ pc = "encoded" /\ query.from = "json_as_unsafe_str"
     /\ op = "json_string_from_unsafe_str") =>
        /\ ret # 0
        /\ query.dst = text \o <<Ch["NUL"]>>

\* "</" has come back as "<\/"
RoundTripEscaped ==
    /\ pc = "encoded" /\ query.from = "json_as_unsafe_str"
    /\ op = "json_string_from_unsafe_str"
    /\ text = Quoted(<<60, Ch["/"]>>)
    /\ query.src = <<60, Ch["/"], Ch["NUL"]>>
    /\ query.dst = Quoted(<<60, Ch["\\"], Ch["/"]>>) \o <<Ch["NUL"]>>

\* the byte C0, which is no UTF-8, has come back as it was
RoundTripInvalidByte ==
    /\ pc = "encoded" /\ query.from = "json_as_unsafe_str"
    /\ op = "json_string_from_unsafe_str"
    /\ text = Quoted(<<192>>)
    /\ query.src = <<237, 179, 128, Ch["NUL"]>>
    /\ query.dst = text \o <<Ch["NUL"]>>

(***************************************************************************)
(* C21.  json_as_str fails for exactly the texts that json_as_unsafe_str   *)
(* has to convert with a code point of U+DC00..U+DCFF in its output: each  *)
(* such text fails, and no other text does.                                *)
(***************************************************************************)
\* the bytes ED B0..B3 xx, the form that put_utf8_raw gives U+DC00..U+DCFF,
\* stand in out
HasSanitized(out) ==
    \E i \in 1 .. Len(out) : out[i] = 237 /\ At(out, i + 1) \in 176 .. 179

\* what json_as_unsafe_str makes of the text, given room
UnsafeOfText == json_as_unsafe_str(Mem, arg, BufSize, "0")

SafeReturned == pc \in {"decoded", "stored"} /\ op = "json_as_str"

SafeFailed == ret = 0 /\ errno = "EINVAL"

C21_SafeFailsIffSanitized ==
    SafeReturned => (SafeFailed <=> HasSanitized(UnsafeOfText.buf))

\* the array [0] fails though nothing in it is sanitized
SafeFailedUnsanitized ==
    /\ SafeReturned /\ SafeFailed
    /\ text = Text(<<"[", "0", "]">>)
    /\ UnsafeOfText.buf = <<Ch["NUL"]>>

\* C21 amended: of the texts that json_as_unsafe_str converts, json_as_str
\* fails for exactly those with a code point of U+DC00..U+DCFF in the
\* output of json_as_unsafe_str
C21_SafeFailsIffSanitizedConverted ==
    (SafeReturned /\ UnsafeOfText.ret # 0) =>
        (SafeFailed <=> HasSanitized(UnsafeOfText.buf))

\* "\a", whose backslash json_as_unsafe_str converts to U+DC5C, has failed
\* in a buffer too small for it
C21_Witness ==
    /\ SafeReturned /\ SafeFailed
    /\ text = Quoted(<<Ch["\\"], Ch["a"]>>)
    /\ query.dstsz = 1
    /\ UnsafeOfText.buf = <<237, 177, 156, Ch["a"], Ch["NUL"]>>

(***************************************************************************)
(* C22.  When json_as_str or json_as_unsafe_str is given a buffer of a     *)
(* nonzero size smaller than the decoded string needs, the buffer holds    *)
(* the decoded string cut at a code point boundary and ended by a NUL      *)
(* within the size given, the call returns the size that the whole string  *)
(* needs, and errno is ENOMEM.                                             *)
(***************************************************************************)
\* what the call makes of the text, given room
WholeOfText == as_str(Mem, arg, BufSize, op = "json_as_str", "0")

\* the call was given a buffer, and one too small for the string
BufferTooSmall ==
    /\ pc = "stored"
    /\ query.dstsz # 0
    /\ WholeOfText.ret > query.dstsz

\* s with its NUL is the start of whole up to a byte that starts a code
\* point
CutAtBoundary(s, whole) ==
    /\ Len(s) >= 1
    /\ s[Len(s)] = Ch["NUL"]
    /\ SubSeq(s, 1, Len(s) - 1) = SubSeq(whole, 1, Len(s) - 1)
    /\ ~IsContinuation(whole[Len(s)])

C22_TruncatedFullSize ==
    BufferTooSmall =>
        /\ ret = WholeOfText.ret
        /\ errno = "ENOMEM"
        /\ Len(query.buf) <= query.dstsz
        /\ CutAtBoundary(query.buf, WholeOfText.buf)

\* "aa" into a buffer of two bytes: 0 is returned, not 3, and the buffer
\* holds the empty string, not "a"
TooSmallReturnedZero ==
    /\ BufferTooSmall
    /\ op = "json_as_unsafe_str"
    /\ text = Quoted(<<Ch["a"], Ch["a"]>>)
    /\ query.dstsz = 2
    /\ WholeOfText.ret = 3
    /\ ret = 0 /\ errno = "ENOMEM"
    /\ query.buf = <<Ch["NUL"]>>

(***************************************************************************)
(* C23.  Decoding as a string a value that is no string (a number, an      *)
(* array, an object, a boolean word, null, or text that is no value)       *)
(* gives an empty string and sets errno to EINVAL.                         *)
(***************************************************************************)
\* the text does not start, after whitespace, with a quote
NotAString == rd(Mem, WhiteEnd(Mem, 1)) \notin {Ch["\""], Ch["'"]}

C23_NonStringInvalid ==
    (pc = "stored" /\ NotAString) =>
        /\ ret = 0
        /\ errno = "EINVAL"
        /\ query.dstsz # 0 => query.buf = <<Ch["NUL"]>>

\* null has been converted to the string "null"
NullConverted ==
    /\ pc = "stored" /\ NotAString
    /\ op = "json_as_str"
    /\ text = Text(<<"n", "u", "l", "l">>)
    /\ query.dstsz = BufSize
    /\ ret = 5 /\ errno = "0"
    /\ query.buf = Text(<<"n", "u", "l", "l", "NUL">>)

\* a lemma: arrays, objects and text that starts no value do give the empty
\* string and EINVAL
NonWordInvalid ==
    (pc = "stored" /\ NotAString /\ ~is_word_start(rd(Mem, WhiteEnd(Mem, 1)))) =>
        /\ ret = 0
        /\ errno = "EINVAL"
        /\ query.dstsz # 0 => query.buf = <<Ch["NUL"]>>

ArrayInvalid ==
    /\ pc = "stored" /\ op = "json_as_unsafe_str"
    /\ text = Text(<<"[", "0", "]">>)
    /\ query.dstsz = BufSize
    /\ ret = 0 /\ errno = "EINVAL"

(***************************************************************************)
(* C24.  For a JSON value that is absent or malformed (NULL, empty text,   *)
(* text that starts with a delimiter, an array or an object, a quoted      *)
(* string without its closing quote) json_strcmp returns what comparing    *)
(* the empty string with cstr gives: 0 when cstr is empty, -1 otherwise.   *)
(***************************************************************************)
\* the first byte of the text after its whitespace
FirstByte == rd(Mem, WhiteEnd(Mem, 1))

\* a quoted string starts the text and its closing quote is missing
Unterminated ==
    /\ FirstByte \in {Ch["\""], Ch["'"]}
    /\ WfStringEnd(text, WhiteEnd(Mem, 1) + 1, FirstByte) = 0

AbsentOrMalformed ==
    \/ arg = NULL
    \/ is_delimiter(FirstByte) /\ FirstByte \notin {Ch["\""], Ch["'"]}
    \/ Unterminated

C24_MalformedSortsAsEmpty ==
    (pc = "compared" /\ AbsentOrMalformed) =>
        ret = (IF query.cstr = <<>> THEN 0 ELSE -1)

\* the string "a without its closing quote has sorted after the empty string
UnterminatedSortedLater ==
    /\ pc = "compared" /\ arg # NULL /\ Unterminated
    /\ text = Text(<<"\"", "a">>)
    /\ query.cstr = <<>>
    /\ ret = 1

\* a lemma: the claim does hold of every value but the strings that lack
\* their closing quote
AbsentSortsAsEmpty ==
    (pc = "compared" /\ AbsentOrMalformed /\ (arg = NULL \/ ~Unterminated)) =>
        /\ ret = (IF query.cstr = <<>> THEN 0 ELSE -1)
        /\ errno = "EINVAL"

ArraySortedAsEmpty ==
    /\ pc = "compared" /\ arg # NULL
    /\ text = Text(<<"[", "]">>)
    /\ query.cstr = Text(<<"a">>)
    /\ ret = -1 /\ errno = "EINVAL"

(***************************************************************************)
(* C25.  json_as_int returns INT_MAX for every text whose numeric value is *)
(* above INT_MAX and INT_MIN for every text whose value is below INT_MIN,  *)
(* and sets errno to ERANGE in both cases, whether the text was read as an *)
(* integer or through json_as_double.                                      *)
(***************************************************************************)
\* the text is a number of the JSON grammar
StrictNumber == arg # NULL /\ scan_strict_number(Mem, WhiteEnd(Mem, arg)) # NULL

\* the digits n times ten to the e10 are more than k
MagnitudeAbove(n, e10, k) ==
    /\ n # 0
    /\ IF e10 >= 0 THEN n * Pow10(Min(e10, 3)) > k
       ELSE n > k * Pow10(Min(0 - e10, 8))

\* the magnitude of the number whose digits start at p is more than k
NumberAbove(M, p, k) ==
    MagnitudeAbove(DigitsValue(M, p, MantissaEnd(M, p, StrtodDigits(M, p)), 0),
                   StrtodExp(M, MantissaEnd(M, p, StrtodDigits(M, p)),
                             scan_strict_number(M, p))
                   - FractionDigits(StrtodDigits(M, p),
                                    MantissaEnd(M, p, StrtodDigits(M, p))),
                   k)

AboveIntMax ==
    /\ StrictNumber
    /\ rd(Mem, WhiteEnd(Mem, arg)) # Ch["-"]
    /\ NumberAbove(Mem, WhiteEnd(Mem, arg), INT_MAX)

BelowIntMin ==
    /\ StrictNumber
    /\ rd(Mem, WhiteEnd(Mem, arg)) = Ch["-"]
    /\ NumberAbove(Mem, WhiteEnd(Mem, arg) + 1, 0 - INT_MIN)

AsIntReturned == pc = "converted" /\ op = "json_as_int"

C25_IntClamped ==
    AsIntReturned =>
        /\ AboveIntMax => (ret = INT_MAX /\ errno = "ERANGE")
        /\ BelowIntMin => (ret = INT_MIN /\ errno = "ERANGE")

\* the double that (double) LONG_MAX is rounded up to, LONG_MAX + 1, has
\* been converted to INT_MIN
ClampedToIntMin ==
    /\ AsIntReturned /\ AboveIntMax
    /\ text = Text(<<"3", "2", ".", "0">>)
    /\ ret = INT_MIN /\ errno = "ERANGE"

\* INT_MAX + 0.5 has been truncated to INT_MAX and errno left as it was
TruncatedUnsignalled ==
    /\ AsIntReturned /\ AboveIntMax
    /\ text = Text(<<"3", ".", "5">>)
    /\ ret = INT_MAX /\ errno = "0"

\* the text is a JSON number with neither fraction nor exponent
IntegerToken ==
    /\ StrictNumber
    /\ \A i \in 1 .. Len(text) : text[i] \notin {Ch["."], Ch["e"], Ch["E"]}

\* a lemma: integers are clamped as the claim says
IntegerClamped ==
    (AsIntReturned /\ IntegerToken) =>
        /\ AboveIntMax => (ret = INT_MAX /\ errno = "ERANGE")
        /\ BelowIntMin => (ret = INT_MIN /\ errno = "ERANGE")

IntegerClampedToMin ==
    /\ AsIntReturned /\ IntegerToken /\ BelowIntMin
    /\ text = Text(<<"-", "5">>)
    /\ ret = INT_MIN /\ errno = "ERANGE"

(***************************************************************************)
(* C29.  When json_as_long falls back to json_as_double and the double is  *)
(* a NaN, json_as_long returns 0 and sets errno to ERANGE, not to EINVAL.  *)
(***************************************************************************)
\* strtol did not read the text at p up to a delimiter
FellBack(M, p) ==
    ~(strtol(M, p).end # p /\ is_delimiter(rd(M, strtol(M, p).end)))

\* json_as_long has gone on to json_as_double, which returned a NaN
NanFromFallback ==
    /\ pc = "converted" /\ op = "json_as_long"
    /\ arg # NULL
    /\ FellBack(Mem, WhiteEnd(Mem, arg))
    /\ json_as_double(Mem, arg, "0").fp.kind = "nan"

C29_NanIsRangeFailure == NanFromFallback => (ret = 0 /\ errno = "ERANGE")

\* the text NaN has given 0 with errno EINVAL
NanGaveEinval ==
    /\ NanFromFallback
    /\ text = Text(<<"N", "a", "N">>)
    /\ ret = 0 /\ errno = "EINVAL"

\* a lemma: every NaN of the fallback gives 0 with errno EINVAL
NanIsTypeMismatch == NanFromFallback => (ret = 0 /\ errno = "EINVAL")

(***************************************************************************)
(* Callers that share one text.  Each caller is a thread with its own      *)
(* locals: the value x it works on, its iterator it and its key, and the   *)
(* calls it has made with what they returned, res.  errno is a cell for    *)
(* each thread (ErrnoCell).  query holds the program prog[c] that caller c *)
(* runs, a sequence of calls, the locals cs[c] and the cells errs.  Every  *)
(* call reads the text through pointers to const and stores through none   *)
(* of them, so a call is one step whatever runs beside it.                 *)
(***************************************************************************)
NumCallers == 2

Callers == 1 .. NumCallers

\* the errno of caller c: a thread has its own
ErrnoCellShared(c) == 1

ErrnoCell(c) == c

ShareTexts ==
    {Text(<<"{", "\"", "a", "\"", ":", "1", ",", "b", ":", "t", "r", "u", "e", "}">>),
     Text(<<" ", "{", "a", ":", "{", "a", ":", "4", "}", "}">>),
     Text(<<"[", "0", ",", "1", "]">>),
     Text(<<"{", "a", " ", "1", "}">>)}

Programs ==
    {<<"json_as_object", "json_object_next", "json_object_next", "json_object_next">>,
     <<"json_span", "json_select", "json_as_int", "json_as_bool">>,
     <<"json_select", "json_select", "json_span", "json_as_object">>}

\* the locals of a caller that has made no call
NoCalls == [x |-> 1, it |-> NULL, key |-> NULL, res |-> <<>>]

\* what a call of the caller with the locals cs returns: r holds ret, errno
\* and out, and x, it and key are the locals after the call
CallOutcome(r, value, x, it, k) ==
    [ret |-> value, errno |-> r.errno, out |-> r.out, x |-> x, it |-> it, key |-> k]

SpanCalled(cs, r) == CallOutcome(r, r.n, cs.x, cs.it, cs.key)

SelectCalled(cs, r) ==
    CallOutcome(r, r.ret, IF r.ret # NULL THEN r.ret ELSE cs.x, cs.it, cs.key)

ConvertCalled(cs, r) == CallOutcome(r @@ [out |-> "ret"], r.ret, cs.x, cs.it, cs.key)

AsObjectCalled(cs, r) == CallOutcome(r @@ [out |-> "ret"], r.ret, cs.x, r.ret, cs.key)

ObjectNextCalled(cs, r) == CallOutcome(r, r.ret, cs.x, r.ji, r.key)

\* the call f of a caller whose errno is e
CallOf(M, g, f, cs, e) ==
    IF f = "json_span" THEN SpanCalled(cs, json_span(M, cs.x, e, g))
    ELSE IF f = "json_select"
    THEN SelectCalled(cs, json_select(M, cs.x, [path |-> Text(<<"a">>), ap |-> <<>>],
                                      e, g))
    ELSE IF f = "json_as_bool" THEN ConvertCalled(cs, json_as_bool(M, cs.x, e))
    ELSE IF f = "json_as_int"
    THEN ConvertCalled(cs, AsIntOf(json_as_long(M, cs.x, e).ret,
                                   json_as_long(M, cs.x, e).errno))
    ELSE IF f = "json_as_object" THEN AsObjectCalled(cs, json_as_object(M, cs.x, e))
    ELSE ObjectNextCalled(cs, json_object_next(M, cs.it, cs.key, TRUE, e, g))

\* the locals after the call f that returned r
After(cs, f, r) ==
    [x |-> r.x, it |-> r.it, key |-> r.key,
     res |-> Append(cs.res, [op |-> f, ret |-> r.ret, errno |-> r.errno,
                             out |-> r.out])]

\* the errno that the caller finds before its next call
LastErrno(cs) == IF cs.res = <<>> THEN "0" ELSE cs.res[Len(cs.res)].errno

\* whether its last call returned
LastOut(cs) == IF cs.res = <<>> THEN "ret" ELSE cs.res[Len(cs.res)].out

\* a caller running the first n calls of prog with nothing beside it
RECURSIVE Alone(_, _, _, _)
Alone(M, g, prog, n) ==
    IF n = 0 THEN NoCalls
    ELSE After(Alone(M, g, prog, n - 1), prog[n],
               CallOf(M, g, prog[n], Alone(M, g, prog, n - 1),
                      LastErrno(Alone(M, g, prog, n - 1))))

\* the callers are given a text and their programs
Share ==
    /\ pc = "idle"
    /\ \E t \in ShareTexts, g \in {ZeroNest, OnesNest}, progs \in [Callers -> Programs] :
         /\ text' = t
         /\ garbage' = g
         /\ query' = [prog |-> progs, cs |-> [c \in Callers |-> NoCalls],
                      errs |-> [c \in Callers |-> "0"]]
    /\ pc' = "shared"
    /\ op' = "share"
    /\ slack' = <<>>
    /\ UNCHANGED <<errno, arg, st, jp, ret, ji, key, hist>>

\* caller c can make the next call of its program, and it is f
NextCall(c, f) ==
    /\ pc = "shared"
    /\ Len(query.cs[c].res) < Len(query.prog[c])
    /\ query.prog[c][Len(query.cs[c].res) + 1] = f
    /\ LastOut(query.cs[c]) = "ret"

\* caller c has made the call f, which returned r
CallReturned(c, f, r) ==
    /\ query' = [query EXCEPT !.cs[c] = After(@, f, r),
                              !.errs[ErrnoCell(c)] = r.errno]
    /\ op' = f
    /\ arg' = c
    /\ UNCHANGED <<text, slack, garbage, errno, pc, st, jp, ret, ji, key, hist>>

\* the call f of caller c on the text
Called(c, f) ==
    CallReturned(c, f, CallOf(Mem, garbage, f, query.cs[c], query.errs[ErrnoCell(c)]))

CallSpan == \E c \in Callers : NextCall(c, "json_span") /\ Called(c, "json_span")

CallSelect == \E c \in Callers : NextCall(c, "json_select") /\ Called(c, "json_select")

CallAsBool == \E c \in Callers : NextCall(c, "json_as_bool") /\ Called(c, "json_as_bool")

CallAsInt == \E c \in Callers : NextCall(c, "json_as_int") /\ Called(c, "json_as_int")

CallAsObject ==
    \E c \in Callers : NextCall(c, "json_as_object") /\ Called(c, "json_as_object")

CallObjectNext ==
    \E c \in Callers : NextCall(c, "json_object_next") /\ Called(c, "json_object_next")

NextShare ==
    \/ Share
    \/ CallSpan \/ CallSelect \/ CallAsBool \/ CallAsInt
    \/ CallAsObject \/ CallObjectNext

SpecShare == Init /\ [][NextShare]_vars

IteratorAfter(i) == IF i < Len(hist) THEN hist[i + 1].it ELSE ji

\* every call that returned a value moved the iterator on, or made it NULL
IteratorAdvances ==
    op = "json_object_next" =>
        \A i \in DOMAIN hist :
            hist[i].ret # NULL =>
                IteratorAfter(i) = NULL \/ IteratorAfter(i) > hist[i].it

C27_IterationEnds ==
    /\ IteratorAdvances
    /\ op = "json_object_next" => pc # "hung"

\* json_object_next does not return from the text {[: , whose first key
\* skip_value never gets through
IterationHung ==
    /\ op = "json_object_next" /\ pc = "hung"
    /\ text = <<Ch["{"], Ch["["], Ch[":"]>>
    /\ ji = 2
    /\ hist = <<>>

\* the first call on {a moved the iterator to the terminating NUL, where
\* neither skip_value nor a delimiter moved it on, and the second call has
\* made it NULL
IteratorMadeNull ==
    /\ op = "json_object_next" /\ pc = "returned"
    /\ text = <<Ch["{"], Ch["a"]>>
    /\ Len(hist) = 2
    /\ hist[1].ret # NULL /\ hist[2].it > hist[1].it
    /\ hist[2].ret # NULL /\ ji = NULL

(***************************************************************************)
(* C28.  For any text that begins with a bracket-balanced array or object  *)
(* whose depth is within the limit, skip_value stops immediately after     *)
(* the bracket that closes the first opening bracket and the whitespace    *)
(* following it: a closing bracket pops the nesting stack only when its    *)
(* kind is that of the innermost open structure, and the scan completes    *)
(* exactly when the stack becomes empty.                                   *)
(***************************************************************************)
CloserOf(open) == IF open = Ch["["] THEN Ch["]"] ELSE Ch["}"]

\* The position of the bracket that closes the first opening bracket of t,
\* opens being the brackets open before p; 0 when a closing bracket is of
\* the wrong kind, a bracket or a string is left open, or more than
\* DepthLimit brackets are open.  The content of a string is no bracket.
RECURSIVE MatchingClose(_, _, _)
MatchingClose(t, p, opens) ==
    IF p > Len(t) \/ p = 0 THEN 0
    ELSE IF t[p] \in {Ch["\""], Ch["'"]}
    THEN MatchingClose(t, WfStringEnd(t, p + 1, t[p]), opens)
    ELSE IF t[p] \in {Ch["["], Ch["{"]}
    THEN IF Len(opens) >= DepthLimit THEN 0
         ELSE MatchingClose(t, p + 1, Append(opens, t[p]))
    ELSE IF t[p] \in {Ch["]"], Ch["}"]}
    THEN IF opens = <<>> THEN 0
         ELSE IF t[p] # CloserOf(opens[Len(opens)]) THEN 0
         ELSE IF Len(opens) = 1 THEN p
         ELSE MatchingClose(t, p + 1, SubSeq(opens, 1, Len(opens) - 1))
    ELSE MatchingClose(t, p + 1, opens)

\* t begins with a bracket-balanced array or object within the limit
BracketBalanced(t) ==
    /\ At(t, 1) \in {Ch["["], Ch["{"]}
    /\ MatchingClose(t, 1, <<>>) # 0

\* json_span has called skip_value at the opening bracket of such a text
BalancedEntered == op = "json_span" /\ arg = 1 /\ BracketBalanced(text)

\* where skip_value is to stop
BalancedEnd(t) == WfWhite(t, MatchingClose(t, 1, <<>>) + 1)

\* whenever skip_value has returned from such a text, it has returned 1
\* with its pointer after the closing bracket and the whitespace
BalancedStopsAtClose ==
    (BalancedEntered /\ pc = "returned") =>
        /\ jp = BalancedEnd(text)
        /\ ret = BalancedEnd(text) - 1
        /\ st.level = 0

C28_BalancedSkipped ==
    /\ BalancedStopsAtClose
    \* the scan gets there: each pass but the last has moved json on
    /\ (BalancedEntered /\ pc = "loop") => st.json >= 1 + st.passes

\* skip_value is in its second pass over [:] and the first has not moved
\* json from the colon
BalancedNotSkipped ==
    /\ BalancedEntered
    /\ text = Text(<<"[", ":", "]">>)
    /\ pc = "loop"
    /\ st.json = 2 /\ st.passes = 2

\* skip_value has stopped after the } and the space of the text {} (the
\* braces and one space)
BalancedSkipped ==
    /\ BalancedEntered /\ pc = "returned"
    /\ text = Text(<<"{", "}", " ">>)
    /\ MatchingClose(text, 1, <<>>) = 2
    /\ jp = 4 /\ ret = 3

(***************************************************************************)
(* Decoding one character of a byte sequence and encoding it again         *)
(* (utf8.c).  get_utf8_raw reads at most the four bytes p[0] .. p[3], so   *)
(* the sequences are the windows of up to four bytes, taken from every     *)
(* class of byte that the decoder tells apart, after a lead that puts the  *)
(* window at a later position.                                             *)
(***************************************************************************)
\* a letter; continuation bytes 80 9F A0 BF; the first bytes C1 (overlong)
\* C2, E0 ED (three bytes), F0 F4 F7 (four bytes); FF (first of nothing)
Utf8Bytes == {Ch["a"], 128, 159, 160, 191, 193, 194, 224, 237, 240, 244, 247, 255}

\* the bytes of the longest sequence
Utf8MaxLen == 4

\* the bytes before the position decoded
MaxLead == 1

Leads == TextsOver({Ch["a"], 194}, MaxLead)

Windows == TextsOver(Utf8Bytes, Utf8MaxLen) \ {<<>>}

\* u = get_utf8_sanitized(&p) has returned r, p having pointed at t[a]
Utf8Got(t, a, r) ==
    /\ text' = t
    /\ arg' = a
    /\ ret' = r.u
    /\ jp' = r.json

Utf8Get ==
    /\ pc = "idle"
    /\ \E l \in Leads, w \in Windows :
         Utf8Got(l \o w, Len(l) + 1,
                 get_utf8_sanitized(Memory(l \o w, <<>>), Len(l) + 1))
    /\ op' = "get_utf8_sanitized"
    /\ pc' = "got"
    /\ UNCHANGED <<slack, garbage, errno, st, ji, key, hist, query>>

\* put_sanitized_utf8(u, buf, bufsz) with room in buf for what it stores
Utf8Put ==
    /\ pc = "got"
    /\ query' = [out |-> put_sanitized_utf8(ret)]
    /\ op' = "put_sanitized_utf8"
    /\ pc' = "put"
    /\ UNCHANGED <<text, slack, garbage, errno, arg, st, jp, ret, ji, key, hist>>

NextUtf8 == Utf8Get \/ Utf8Put

SpecUtf8 == Init /\ [][NextUtf8]_vars

\* {U+1..U+D7FF, U+DC00..U+DCFF, U+E000..U+10FFFF}
IsSanitized(u) ==
    \/ 1 <= u /\ u <= 55295
    \/ 56320 <= u /\ u <= 56575
    \/ 57344 <= u /\ u <= 1114111

(***************************************************************************)
(* C30.  At every position of a byte sequence that is not its terminating  *)
(* NUL, get_utf8_sanitized consumes k >= 1 bytes of the sequence and       *)
(* returns a nonzero code point of the sanitized set, and                  *)
(* put_sanitized_utf8 of that code point emits exactly the k bytes that    *)
(* were consumed.                                                          *)
(***************************************************************************)
C30_SanitizedRoundTrip ==
    (op \in {"get_utf8_sanitized", "put_sanitized_utf8"}) =>
        /\ jp - arg >= 1
        /\ jp - 1 <= Len(text)
        /\ IsSanitized(ret)
        /\ pc = "put" => query.out = SubSeq(text, arg, jp - 1)

\* the byte ED of ED A0 80, the encoding of the surrogate U+D800, was
\* consumed alone as U+DCED and has been emitted as the byte ED
C30_Witness ==
    /\ op = "put_sanitized_utf8" /\ pc = "put"
    /\ text = <<Ch["a"], 237, 160, 128>> /\ arg = 2
    /\ ret = 56320 + 237 /\ jp = 3
    /\ query.out = <<237>>

\* the three bytes E0 A0 80 of U+0800 were consumed and have been emitted
Utf8ThreeBytes ==
    /\ op = "put_sanitized_utf8" /\ pc = "put"
    /\ text = <<224, 160, 128>> /\ arg = 1
    /\ ret = 2048 /\ jp = 4
    /\ query.out = text

====
